---- MODULE Spec2Model ----
(***************************************************************************)
(* State machine of the chat application's conversation store (App), its  *)
(* session binder, its persistence effects and its send pipeline.          *)
(*                                                                         *)
(* React state is modelled by one variable per useState cell.  A handler   *)
(* runs to completion, React re-renders and the effects of the render run  *)
(* (persist, session binder, geolocation) before the next event: each      *)
(* action is a handler followed by these effects.  Work that suspends      *)
(* (a remote call, a setTimeout, a geolocation request) is a record in a   *)
(* pending collection holding the values its closure captured.             *)
(***************************************************************************)
EXTENDS Naturals, Sequences, FiniteSets, TLC

(* ------------------------------ bounds -------------------------------- *)
\* longest conversation list on which newChat is still taken
MaxConvs == 3
\* conversation identifiers (crypto.randomUUID) a run may draw
MaxConvId == 4
\* message identifiers (crypto.randomUUID) a run may draw
MaxId == 8
\* message and conversation identifiers a run of SpecStore may draw
StoreIds == 4
StoreConvIds == 3
\* longest conversation list on which a run of SpecStore takes newChat
StoreConvs == 2
\* message and conversation identifiers a run of SpecList may draw
ListIds == 4
ListConvIds == 4
\* message and conversation identifiers a run of SpecSend may draw
SendIds == 5
SendConvIds == 2
\* message identifiers a run of SpecEdit may draw
EditIds == 7
\* message identifiers a run of SpecLive may draw
LiveIds == 7
\* message and conversation identifiers a run of SpecMode may draw
ModeIds == 5
ModeConvIds == 2
\* deferred re-sends (setTimeout 0) outstanding at once
MaxTimers == 2
\* identifier budgets of the specification SpecApp
AppIds == 5
AppConvIds == 2
\* identifier budgets of the specification SpecTitle
TitleIds == 5
TitleConvIds == 3
\* identifier budgets of the specification SpecBind
BindIds == 5
BindConvIds == 2
\* identifier budget of the specification SpecInput, and the selections it
\* lets be read at once
InputIds == 3
MaxFilePromises == 2
\* identifier budget of the specification SpecResend
ResendIds == 7
\* identifier budgets of the specification SpecStartup
StartupIds == 6
StartupConvIds == 3
\* identifier budgets of the specification SpecPlay
PlayMsgIds == 5
PlayConvIds == 2
\* identifier budgets of the specification SpecLoad
LoadIds == 6
LoadConvIds == 3
\* identifier budgets of the specification SpecPersist
PersistIds == 3
PersistConvIds == 3
\* playbacks (handlePlayAudio) outstanding at once
MaxPlaybacks == 1

VARIABLES
  conversations,         \* useState<Conversation[]>
  activeConversationId,  \* useState<string | null>
  chatSession,           \* useState<Chat | null>
  isLoading,             \* useState(false)
  context,               \* useState('')
  error,                 \* useState<string | null>
  location,              \* useState<GeolocationCoordinates | null>
  chatHistory,           \* localStorage entry 'chatHistory'
  initialBotMessageId,   \* id of the module-level initialBotMessage
  nextId,                \* next message identifier crypto.randomUUID returns
  nextConvId,            \* next conversation identifier crypto.randomUUID returns
  sends,                 \* handleSendMessage calls suspended at their await
  timers,                \* setTimeout(0) callbacks queued by handleEditMessage
  titleReqs,             \* generateTitle promises not yet resolved
  geoPending,            \* a getCurrentPosition request is outstanding
  playbacks,             \* handlePlayAudio calls suspended at their await or playing
  input,                 \* ChatInput: useState('')
  imagePreviews,         \* ChatInput: useState<string[]>([])
  imageError,            \* ChatInput: useState<string | null>(null)
  filePromises,          \* ChatInput: Promise.all(filePromises) not yet settled
  mountUpdate,           \* state updates queued by the mount effects, not yet rendered
  last                   \* the handler or callback that ran last, with its inputs

vars == <<conversations, activeConversationId, chatSession, isLoading, context,
          error, location, chatHistory, initialBotMessageId, nextId, nextConvId,
          sends, timers, titleReqs, geoPending, playbacks, input, imagePreviews,
          imageError, filePromises, mountUpdate, last>>

(* ------------------------------ values -------------------------------- *)
\* An optional value (T | undefined, T | null): <<>> when missing, <<v>> when present.
None == <<>>
Some(v) == <<v>>
\* activeConversationId = null
NoId == 0

USER == "user"
MODEL == "model"
CHAT == "CHAT"
THINKING == "THINKING"
MAPS == "MAPS"
ChatModes == {CHAT, THINKING, MAPS}

GreetingText == "Hello! I'm a multi-modal AI assistant. Choose a mode, ask me anything, or upload an image to start."
NewChatTitle == "New Chat"
ImageUploadTitle == "Image Upload"
AnalyzeImagesPrompt == "Analyze these images"
FallbackTitle == "Untitled Chat"
LocationError == "Location not available. Please allow location access."
SessionError == "Chat session not initialized."
UnexpectedError == "An unexpected error occurred."
GeolocationRequired == "Geolocation is required for Maps Mode. Please enable it in your browser settings."
\* titlePrompt.substring(0, 40)
TitleLen == 40

\* A Message; an optional field that was never assigned is "undefined".
Message(id, role, text, images) ==
  [id |-> id, role |-> role, text |-> text, images |-> images,
   sources |-> None, isPlaying |-> "undefined", feedback |-> "undefined"]

initialBotMessage(gid) == Message(gid, MODEL, GreetingText, None)

NewConversation(id, gid) ==
  [id |-> id, title |-> NewChatTitle, messages |-> <<initialBotMessage(gid)>>,
   mode |-> CHAT, context |-> ""]

(* ----------------------------- sequences ------------------------------ *)
RECURSIVE FindFrom(_, _, _)
FindFrom(seq, id, i) ==
  IF i > Len(seq) THEN 0
  ELSE IF seq[i].id = id THEN i
  ELSE FindFrom(seq, id, i + 1)

\* 1-based position of the first element with that id, 0 when there is none
\* (findIndex(...) + 1).
FindIndex(seq, id) == FindFrom(seq, id, 1)

\* conversations.find(c => c.id === id), as an optional
FindConversation(convs, id) ==
  IF FindIndex(convs, id) = 0 THEN None ELSE Some(convs[FindIndex(convs, id)])

\* prev.filter(c => c.id !== id)
RECURSIVE FilterOut(_, _)
FilterOut(seq, id) ==
  IF seq = <<>> THEN <<>>
  ELSE IF Head(seq).id = id THEN FilterOut(Tail(seq), id)
  ELSE <<Head(seq)>> \o FilterOut(Tail(seq), id)

\* The elements of seq that carry the id: the ones a map callback replaces
Matching(seq, id) == {seq[i] : i \in {j \in 1..Len(seq) : seq[j].id = id}}

\* prev.map(c => c.id === id ? f(c) : c), f given on Matching(convs, id)
MapConv(convs, id, f) ==
  [i \in 1..Len(convs) |-> IF convs[i].id = id THEN f[convs[i]] ELSE convs[i]]

\* c.messages.map(m => m.id === id ? f(m) : m), f given on Matching(msgs, id)
MapMsg(msgs, id, f) ==
  [i \in 1..Len(msgs) |-> IF msgs[i].id = id THEN f[msgs[i]] ELSE msgs[i]]

Min(a, b) == IF a < b THEN a ELSE b
Max(a, b) == IF a > b THEN a ELSE b

(* ------------------------------ strings ------------------------------- *)
\* s.indexOf(c, from), 1-based; 0 when c does not occur
RECURSIVE IndexOfChar(_, _, _)
IndexOfChar(s, c, from) ==
  IF from > Len(s) THEN 0
  ELSE IF SubSeq(s, from, from) = c THEN from
  ELSE IndexOfChar(s, c, from + 1)

\* s.substring(0, n)
Substring(s, n) == SubSeq(s, 1, Min(n, Len(s)))

\* image.split(',')[1]: the text between the first and the second comma
Base64Data(image) ==
  LET c1 == IndexOfChar(image, ",", 1)
      c2 == IF c1 = 0 THEN 0 ELSE IndexOfChar(image, ",", c1 + 1)
  IN  IF c1 = 0 THEN None
      ELSE Some(SubSeq(image, c1 + 1, IF c2 = 0 THEN Len(image) ELSE c2 - 1))

\* meta.match(/:(.*?);/)?.[1] on image.split(',')[0]
MimeType(image) ==
  LET c1   == IndexOfChar(image, ",", 1)
      meta == IF c1 = 0 THEN image ELSE SubSeq(image, 1, c1 - 1)
      colon == IndexOfChar(meta, ":", 1)
      semi == IF colon = 0 THEN 0 ELSE IndexOfChar(meta, ";", colon + 1)
  IN  IF colon = 0 \/ semi = 0 THEN None
      ELSE Some(SubSeq(meta, colon + 1, semi - 1))

\* the inlineData parts of a list of images (images.forEach ... parts.push)
RECURSIVE ImageParts(_)
ImageParts(images) ==
  IF images = <<>> THEN <<>>
  ELSE LET d == Base64Data(Head(images))
           m == MimeType(Head(images))
       IN  (IF d # None /\ m # None /\ d[1] # "" /\ m[1] # ""
            THEN <<[inlineData |-> [data |-> d[1], mimeType |-> m[1]]]>>
            ELSE <<>>)
           \o ImageParts(Tail(images))

\* Variant of FormatError without the fallback text
FormatErrorNoFallback(message) == "Error: " \o message

\* `Error: ${err.message || 'An unexpected error occurred.'}`
FormatError(message) ==
  "Error: " \o (IF message = "" THEN UnexpectedError ELSE message)

(* --------------------------- session binder --------------------------- *)
\* The Content the binder builds for one message: its images as inlineData
\* parts, then its text when it is not empty, tagged with the message's role.
Content(msg) ==
  [role  |-> msg.role,
   parts |-> (IF msg.images # None THEN ImageParts(msg.images[1]) ELSE <<>>)
             \o (IF msg.text # "" THEN <<[text |-> msg.text]>> ELSE <<>>)]

\* activeConversation.messages.slice(1).map(...)
History(messages) ==
  IF Len(messages) = 0 THEN <<>>
  ELSE [i \in 1..(Len(messages) - 1) |-> Content(messages[i + 1])]

\* Variant of BinderSession that keeps the session outside CHAT mode
BinderSessionKept(convs, act, old) ==
  LET c == FindConversation(convs, act)
  IN  IF c = None THEN old
      ELSE IF c[1].mode = CHAT THEN Some([history |-> History(c[1].messages)])
      ELSE old

\* Variant of BinderSession that keeps a session that is already bound
BinderSessionOnce(convs, act, old) ==
  LET c == FindConversation(convs, act)
  IN  IF c = None THEN old
      ELSE IF c[1].mode = CHAT
           THEN (IF old # None THEN old ELSE Some([history |-> History(c[1].messages)]))
      ELSE None

\* The chatSession the binder effect leaves: rebuilt from the active
\* conversation in CHAT mode, null in the other modes, untouched when there is
\* no active conversation.
BinderSession(convs, act, old) ==
  LET c == FindConversation(convs, act)
  IN  IF c = None THEN old
      ELSE IF c[1].mode = CHAT THEN Some([history |-> History(c[1].messages)])
      ELSE None

\* setContext(activeConversation.context || '')
BinderContext(convs, act, old) ==
  LET c == FindConversation(convs, act)
  IN  IF c = None THEN old ELSE c[1].context

\* activeConversation?.mode
ActiveMode(convs, act) ==
  LET c == FindConversation(convs, act)
  IN  IF c = None THEN "undefined" ELSE c[1].mode

(* ----------------------------- persistence ---------------------------- *)
\* Variant of SerializeMessage that also leaves out a feedback of null
SerializeMessageDroppingNull(m) ==
  LET keys == {"id", "role", "text"}
              \cup (IF m.images # None THEN {"images"} ELSE {})
              \cup (IF m.sources # None THEN {"sources"} ELSE {})
              \cup (IF m.isPlaying # "undefined" THEN {"isPlaying"} ELSE {})
              \cup (IF m.feedback \notin {"undefined", "null"} THEN {"feedback"} ELSE {})
  IN  [k \in keys |->
         CASE k = "id" -> m.id
           [] k = "role" -> m.role
           [] k = "text" -> m.text
           [] k = "images" -> m.images[1]
           [] k = "sources" -> m.sources[1]
           [] k = "isPlaying" -> m.isPlaying
           [] k = "feedback" -> m.feedback]

\* JSON.stringify of a Message: a field that is undefined is left out.
SerializeMessage(m) ==
  LET keys == {"id", "role", "text"}
              \cup (IF m.images # None THEN {"images"} ELSE {})
              \cup (IF m.sources # None THEN {"sources"} ELSE {})
              \cup (IF m.isPlaying # "undefined" THEN {"isPlaying"} ELSE {})
              \cup (IF m.feedback # "undefined" THEN {"feedback"} ELSE {})
  IN  [k \in keys |->
         CASE k = "id" -> m.id
           [] k = "role" -> m.role
           [] k = "text" -> m.text
           [] k = "images" -> m.images[1]
           [] k = "sources" -> m.sources[1]
           [] k = "isPlaying" -> m.isPlaying
           [] k = "feedback" -> m.feedback]

SerializeConversation(c) ==
  [id |-> c.id, title |-> c.title,
   messages |-> [i \in 1..Len(c.messages) |-> SerializeMessage(c.messages[i])],
   mode |-> c.mode, context |-> c.context]

\* JSON.stringify(conversations)
Serialize(convs) ==
  [i \in 1..Len(convs) |-> SerializeConversation(convs[i])]

\* JSON.parse of a Message: a key that is missing reads as undefined.
ParseMessage(j) ==
  [id |-> j.id, role |-> j.role, text |-> j.text,
   images |-> IF "images" \in DOMAIN j THEN Some(j.images) ELSE None,
   sources |-> IF "sources" \in DOMAIN j THEN Some(j.sources) ELSE None,
   isPlaying |-> IF "isPlaying" \in DOMAIN j THEN j.isPlaying ELSE "undefined",
   feedback |-> IF "feedback" \in DOMAIN j THEN j.feedback ELSE "undefined"]

ParseConversation(j) ==
  [id |-> j.id, title |-> j.title,
   messages |-> [i \in 1..Len(j.messages) |-> ParseMessage(j.messages[i])],
   mode |-> j.mode, context |-> j.context]

\* JSON.parse(storedHistory) as Conversation[]
Parse(array) ==
  [i \in 1..Len(array) |-> ParseConversation(array[i])]

\* localStorage without the key 'chatHistory'
Absent == [kind |-> "absent"]
Stored(array) == [kind |-> "array", items |-> array]

\* Variant of PersistEffect that leaves the key as it is for an empty list
PersistEffectNoRemove(convs) ==
  IF Len(convs) > 0 THEN Stored(Serialize(convs)) ELSE Stored(<<>>)

\* The persist effect: write the list, or remove the key when it is empty.
PersistEffect(convs) ==
  IF Len(convs) > 0 THEN Stored(Serialize(convs)) ELSE Absent

(* ------------------------------- inputs ------------------------------- *)
Image == "data:image/png;base64,QUJD"
\* (prompt, images) pairs handed to handleSendMessage
SendInputs == {<<"", None>>, <<"", Some(<<>>)>>, <<"hi", None>>, <<"", Some(<<Image>>)>>}
\* new texts handed to handleEditMessage
EditTexts == {"", "yo"}
\* err.message of a rejected remote call
RejectMessages == {"", "Service unavailable"}
\* response.text of a resolved remote call
ResponseTexts == {"ok"}
\* identifiers that name nothing in the store
AbsentConversation == MaxConvId + 1
AbsentMessage == MaxId + 1
Coords == [latitude |-> 1, longitude |-> 2]

(* ------------------------------ effects ------------------------------- *)
\* What the render after a handler leaves: the new list and pointer, then the
\* persist effect (when the list changed), the session binder and the
\* geolocation effect (a request when the active mode became MAPS with no
\* location).  ctx and loc are the context and location the handler set.
Render(convs, act, ctx, loc) ==
  /\ conversations' = convs
  /\ activeConversationId' = act
  /\ location' = loc
  /\ chatHistory' = IF convs # conversations THEN PersistEffect(convs) ELSE chatHistory
  /\ chatSession' = BinderSession(convs, act, chatSession)
  /\ context' = BinderContext(convs, act, ctx)
  /\ geoPending' = IF /\ ActiveMode(convs, act) = MAPS
                      /\ loc = None
                      /\ ActiveMode(convs, act) # ActiveMode(conversations, activeConversationId)
                   THEN TRUE ELSE geoPending

\* The values a handler created in the current render reads from its closure.
Closure ==
  LET c == FindConversation(conversations, activeConversationId)
  IN  [isLoading |-> isLoading,
       id        |-> activeConversationId,
       hasConv   |-> c # None,
       len       |-> IF c = None THEN 0 ELSE Len(c[1].messages),
       mode      |-> IF c = None THEN "undefined" ELSE c[1].mode,
       session   |-> chatSession,
       location  |-> location]

(* --------------------------- store operations ------------------------- *)
\* Variant of PrependNew that puts the new conversation last
AppendNew(convs, id, gid) == convs \o <<NewConversation(id, gid)>>

\* handleNewChat's functional update
PrependNew(convs, id, gid) == <<NewConversation(id, gid)>> \o convs

NewChat ==
  /\ Len(conversations) < MaxConvs
  /\ nextConvId <= MaxConvId
  /\ Render(PrependNew(conversations, nextConvId, initialBotMessageId), nextConvId,
            context, location)
  /\ nextConvId' = nextConvId + 1
  /\ last' = [op |-> "newChat"]
  /\ UNCHANGED <<mountUpdate, input, imagePreviews, imageError, filePromises,
                 isLoading, error, initialBotMessageId, playbacks, nextId, sends, timers, titleReqs>>

SelectConversation(id) ==
  /\ Render(conversations, id, context, location)
  /\ last' = [op |-> "selectConversation"]
  /\ UNCHANGED <<mountUpdate, input, imagePreviews, imageError, filePromises,
                 isLoading, error, initialBotMessageId, playbacks, nextId, nextConvId, sends, timers,
                 titleReqs>>

\* Variant of Retitle that gives the title to every conversation
RetitleAll(convs, id, title) ==
  [i \in 1..Len(convs) |-> [convs[i] EXCEPT !.title = title]]

\* c.id === id ? { ...c, title: newTitle } : c
Retitle(convs, id, title) ==
  MapConv(convs, id, [c \in Matching(convs, id) |-> [c EXCEPT !.title = title]])

RenameConversation(id, newTitle) ==
  /\ Render(Retitle(conversations, id, newTitle), activeConversationId, context, location)
  /\ last' = [op |-> "renameConversation"]
  /\ UNCHANGED <<mountUpdate, input, imagePreviews, imageError, filePromises,
                 isLoading, error, initialBotMessageId, playbacks, nextId, nextConvId, sends, timers,
                 titleReqs>>

\* Variant of NewActiveIndex that always takes the head of the list
NewActiveIndexHead(index) == 1

\* Math.max(0, index - 1), on 1-based positions
NewActiveIndex(index) == Max(1, index - 1)

\* The list handleDeleteConversation leaves: handleNewChat's functional update
\* of the current list when the active, only conversation is deleted, the
\* filtered list otherwise.
DeleteList(convs, act, idToDelete, id, gid) ==
  IF FindIndex(convs, idToDelete) = 0 THEN convs
  ELSE IF act = idToDelete /\ Len(FilterOut(convs, idToDelete)) = 0
       THEN PrependNew(convs, id, gid)
       ELSE FilterOut(convs, idToDelete)

\* The pointer handleDeleteConversation leaves.
DeleteActive(convs, act, idToDelete, id) ==
  IF FindIndex(convs, idToDelete) = 0 \/ act # idToDelete THEN act
  ELSE IF Len(FilterOut(convs, idToDelete)) > 0
       THEN FilterOut(convs, idToDelete)[NewActiveIndex(FindIndex(convs, idToDelete))].id
       ELSE id

DeleteConversation(idToDelete) ==
  LET index == FindIndex(conversations, idToDelete)
      fresh == index # 0 /\ activeConversationId = idToDelete
               /\ Len(FilterOut(conversations, idToDelete)) = 0
  IN  /\ fresh => nextConvId <= MaxConvId
      /\ Render(DeleteList(conversations, activeConversationId, idToDelete, nextConvId,
                           initialBotMessageId),
                DeleteActive(conversations, activeConversationId, idToDelete, nextConvId),
                context, location)
      /\ nextConvId' = IF fresh THEN nextConvId + 1 ELSE nextConvId
      /\ last' = IF index = 0 THEN [op |-> "deleteConversation", index |-> 0]
                  ELSE [op |-> "deleteConversation", id |-> idToDelete, index |-> index,
                        count |-> Len(conversations),
                        wasActive |-> (activeConversationId = idToDelete)]
      /\ UNCHANGED <<mountUpdate, input, imagePreviews, imageError, filePromises,
                     isLoading, error, initialBotMessageId, playbacks, nextId, sends, timers,
                     titleReqs>>

ClearAllConversations ==
  /\ nextConvId <= MaxConvId
  /\ Render(<<NewConversation(nextConvId, initialBotMessageId)>>, nextConvId,
            context, location)
  /\ nextConvId' = nextConvId + 1
  /\ last' = [op |-> "clearAll"]
  /\ UNCHANGED <<mountUpdate, input, imagePreviews, imageError, filePromises,
                 isLoading, error, initialBotMessageId, playbacks, nextId, sends, timers, titleReqs>>

SetContext(newContext) ==
  /\ Render(IF activeConversationId = NoId THEN conversations
            ELSE MapConv(conversations, activeConversationId,
                         [c \in Matching(conversations, activeConversationId) |->
                            [c EXCEPT !.context = newContext]]),
            activeConversationId, newContext, location)
  /\ last' = [op |-> "setContext"]
  /\ UNCHANGED <<mountUpdate, input, imagePreviews, imageError, filePromises,
                 isLoading, error, initialBotMessageId, playbacks, nextId, nextConvId, sends, timers,
                 titleReqs>>

SetMode(mode) ==
  /\ Render(IF activeConversationId = NoId THEN conversations
            ELSE MapConv(conversations, activeConversationId,
                         [c \in Matching(conversations, activeConversationId) |->
                            [c EXCEPT !.mode = mode]]),
            activeConversationId, context, location)
  /\ last' = [op |-> "setMode", mode |-> mode,
              from |-> ActiveMode(conversations, activeConversationId)]
  /\ UNCHANGED <<mountUpdate, input, imagePreviews, imageError, filePromises,
                 isLoading, error, initialBotMessageId, playbacks, nextId, nextConvId, sends, timers,
                 titleReqs>>

(* ------------------------------ sendMessage --------------------------- *)
\* Variant of NoImages that takes an empty list for images
NoImagesUndefinedOnly(images) == images = None

\* !images || images.length === 0
NoImages(images) == images = None \/ images[1] = <<>>

\* The guard of handleSendMessage, on the values of the closure cl.
SendAccepted(prompt, images, cl) ==
  ~ ((prompt = "" /\ NoImages(images)) \/ cl.isLoading \/ cl.id = NoId \/ ~cl.hasConv)

\* titlePrompt.substring(0, 40) + "..."
ProvisionalTitle(prompt) ==
  Substring(IF prompt = "" THEN ImageUploadTitle ELSE prompt, TitleLen) \o "..."

\* The functional update that appends the user message: the title is replaced
\* when the conversation, as found in the list being updated, has one message.
AppendUser(convs, id, userMessage, prompt) ==
  LET found == FindConversation(convs, id)
      isNew == found # None /\ Len(found[1].messages) = 1
  IN  MapConv(convs, id,
        [c \in Matching(convs, id) |->
           [c EXCEPT !.messages = Append(@, userMessage),
                     !.title = IF isNew THEN ProvisionalTitle(prompt) ELSE @]])

\* Variant of AppendMessage that falls back on the first conversation
AppendMessageOrFirst(convs, id, m) ==
  IF FindIndex(convs, id) = 0 /\ Len(convs) > 0
  THEN [convs EXCEPT ![1].messages = Append(@, m)]
  ELSE MapConv(convs, id, [c \in Matching(convs, id) |-> [c EXCEPT !.messages = Append(@, m)]])

\* prev.map(c => c.id === id ? { ...c, messages: [...c.messages, m] } : c)
AppendMessage(convs, id, m) ==
  MapConv(convs, id, [c \in Matching(convs, id) |-> [c EXCEPT !.messages = Append(@, m)]])

\* Variant of SyncFailure that does not look at the location
SyncFailureNoLocationCheck(cl) ==
  IF cl.mode = MAPS THEN None
  ELSE IF cl.mode = THINKING THEN None
  ELSE (IF cl.session = None THEN Some(SessionError) ELSE None)

\* The error thrown before any await: no location in MAPS mode, no session in
\* CHAT mode (the default branch); None when the remote call is issued.
SyncFailure(cl) ==
  IF cl.mode = MAPS
  THEN (IF cl.location = None THEN Some(LocationError) ELSE None)
  ELSE IF cl.mode = THINKING THEN None
  ELSE (IF cl.session = None THEN Some(SessionError) ELSE None)

\* The model message of a failure
ErrorBotMessage(id, message) == Message(id, MODEL, FormatError(message), None)

\* handleSendMessage(prompt, images) run with the closure cl, up to its first
\* await or, when it throws before, to its end.  The user message takes nextId,
\* the model message of this send nextId + 1.
HandleSendMessage(prompt, images, cl, via) ==
  LET accepted == SendAccepted(prompt, images, cl)
      userMessage == Message(nextId, USER, prompt, images)
      withUser == AppendUser(conversations, cl.id, userMessage, prompt)
      failure == SyncFailure(cl)
      before == LET c == FindConversation(conversations, cl.id)
                IN  IF c = None THEN 0 ELSE Len(c[1].messages)
  IN  /\ accepted => nextId + 1 <= MaxId
      /\ IF ~accepted
         THEN /\ last' = [op |-> "sendMessage", via |-> via, outcome |-> "ignored"]
              /\ UNCHANGED <<conversations, activeConversationId, chatSession, isLoading,
                             context, error, location, chatHistory, nextId, sends,
                             titleReqs, geoPending>>
         ELSE /\ nextId' = nextId + 2
              /\ titleReqs' = IF cl.len = 1
                              THEN titleReqs \cup
                                   {[conv |-> cl.id, send |-> nextId,
                                     prompt |-> IF prompt = "" THEN AnalyzeImagesPrompt
                                                ELSE prompt]}
                              ELSE titleReqs
              /\ IF failure # None
                 THEN /\ Render(AppendMessage(withUser, cl.id,
                                              ErrorBotMessage(nextId + 1, failure[1])),
                                activeConversationId, context, location)
                      /\ error' = Some(FormatError(failure[1]))
                      /\ isLoading' = FALSE
                      /\ sends' = sends
                      /\ last' = [op |-> "sendMessage", via |-> via, outcome |-> "failed",
                                  conv |-> cl.id, mode |-> cl.mode, send |-> nextId,
                                  before |-> before, located |-> location # None]
                 ELSE /\ Render(withUser, activeConversationId, context, location)
                      /\ error' = None
                      /\ isLoading' = TRUE
                      /\ sends' = sends \cup
                           {[conv |-> cl.id, mode |-> cl.mode, send |-> nextId,
                             history |-> IF cl.mode = CHAT THEN cl.session
                                         ELSE None]}
                      /\ last' = [op |-> "sendMessage", via |-> via, outcome |-> "dispatched",
                                  conv |-> cl.id, mode |-> cl.mode, send |-> nextId,
                                  before |-> before, located |-> location # None]

\* ChatInput (or any caller of the current render) calls handleSendMessage.
SendMessage(prompt, images) ==
  /\ HandleSendMessage(prompt, images, Closure, "input")
  /\ UNCHANGED <<mountUpdate, input, imagePreviews, imageError, filePromises,
                 initialBotMessageId, playbacks, nextConvId, timers>>

\* Variant of SendResolve that appends to the conversation active at completion
SendResolveToActive(s, text) ==
  LET modelMessage ==
        [Message(s.send + 1, MODEL, text, None)
           EXCEPT !.sources = IF s.mode = MAPS THEN Some(<<>>) ELSE None]
  IN  /\ Render(AppendMessage(conversations, activeConversationId, modelMessage),
                activeConversationId, context, location)
      /\ isLoading' = FALSE
      /\ sends' = sends \ {s}
      /\ last' = [op |-> "sendResolve", send |-> s.send]
      /\ UNCHANGED <<mountUpdate, input, imagePreviews, imageError, filePromises,
                     error, initialBotMessageId, playbacks, nextId, nextConvId, timers, titleReqs>>

\* The awaited remote call resolves: the model message is appended to the
\* conversation captured at dispatch, then finally clears isLoading.
SendResolve(s, text) ==
  LET modelMessage ==
        [Message(s.send + 1, MODEL, text, None)
           EXCEPT !.sources = IF s.mode = MAPS THEN Some(<<>>) ELSE None]
  IN  /\ Render(AppendMessage(conversations, s.conv, modelMessage),
                activeConversationId, context, location)
      /\ isLoading' = FALSE
      /\ sends' = sends \ {s}
      /\ last' = [op |-> "sendResolve", send |-> s.send]
      /\ UNCHANGED <<mountUpdate, input, imagePreviews, imageError, filePromises,
                     error, initialBotMessageId, playbacks, nextId, nextConvId, timers, titleReqs>>

\* Variant of SendReject without the finally block
SendRejectFlagKept(s, message) ==
  /\ Render(AppendMessage(conversations, s.conv, ErrorBotMessage(s.send + 1, message)),
            activeConversationId, context, location)
  /\ error' = Some(FormatError(message))
  /\ isLoading' = isLoading
  /\ sends' = sends \ {s}
  /\ last' = [op |-> "sendReject", conv |-> s.conv, send |-> s.send]
  /\ UNCHANGED <<mountUpdate, input, imagePreviews, imageError, filePromises,
                 initialBotMessageId, playbacks, nextId, nextConvId, timers, titleReqs>>

\* The awaited remote call rejects: catch, then finally.
SendReject(s, message) ==
  /\ Render(AppendMessage(conversations, s.conv, ErrorBotMessage(s.send + 1, message)),
            activeConversationId, context, location)
  /\ error' = Some(FormatError(message))
  /\ isLoading' = FALSE
  /\ sends' = sends \ {s}
  /\ last' = [op |-> "sendReject", conv |-> s.conv, send |-> s.send]
  /\ UNCHANGED <<mountUpdate, input, imagePreviews, imageError, filePromises,
                 initialBotMessageId, playbacks, nextId, nextConvId, timers, titleReqs>>

(* ------------------------------ editMessage --------------------------- *)
\* Variant of Truncate that keeps the edited message
TruncateAfter(messages, index) == SubSeq(messages, 1, index)

\* conversation.messages.slice(0, messageIndex), messageIndex 1-based here
Truncate(messages, index) == SubSeq(messages, 1, index - 1)

\* 1-based position of the message handleEditMessage truncates at; 0 when it
\* returns early (no active id, loading, no such conversation, message absent,
\* the greeting, or not a user message)
EditIndex(convs, act, loading, messageId) ==
  LET c == FindConversation(convs, act)
      k == IF c = None THEN 0 ELSE FindIndex(c[1].messages, messageId)
  IN  IF act = NoId \/ loading \/ c = None THEN 0
      ELSE IF k <= 1 THEN 0
      ELSE IF c[1].messages[k].role # USER THEN 0
      ELSE k

EditMessage(messageId, newText) ==
  LET k == EditIndex(conversations, activeConversationId, isLoading, messageId)
      conversation == FindConversation(conversations, activeConversationId)[1]
  IN  IF k = 0
      THEN /\ last' = [op |-> "editMessage", index |-> 0]
           /\ UNCHANGED <<mountUpdate, input, imagePreviews, imageError, filePromises,
                          conversations, activeConversationId, chatSession, isLoading,
                          context, error, location, chatHistory, initialBotMessageId, playbacks,
                          nextId, nextConvId, sends, timers, titleReqs, geoPending>>
      ELSE /\ Len(timers) < MaxTimers
           /\ Render(MapConv(conversations, activeConversationId,
                       [c \in Matching(conversations, activeConversationId) |->
                          [c EXCEPT !.messages = Truncate(@, k)]]),
                     activeConversationId, context, location)
           /\ timers' = Append(timers, [text |-> newText,
                                        images |-> conversation.messages[k].images,
                                        index |-> k,
                                        closure |-> Closure])
           /\ last' = [op |-> "editMessage", id |-> messageId, text |-> newText,
                       index |-> k, conv |-> activeConversationId,
                       len |-> Len(conversation.messages)]
           /\ UNCHANGED <<mountUpdate, input, imagePreviews, imageError, filePromises,
                          isLoading, error, initialBotMessageId, playbacks, nextId, nextConvId, sends,
                          titleReqs>>

\* The setTimeout(0) callback: handleSendMessage of the render in which
\* handleEditMessage ran, with the values that render had.
TimerFire ==
  /\ timers # <<>>
  /\ HandleSendMessage(Head(timers).text, Head(timers).images, Head(timers).closure, "timer")
  /\ timers' = Tail(timers)
  /\ UNCHANGED <<mountUpdate, input, imagePreviews, imageError, filePromises,
                 initialBotMessageId, playbacks, nextConvId>>

(* ---------------------------- title generation ------------------------ *)
\* text.replace(/["*#]/g, '')
RECURSIVE StripMarks(_)
StripMarks(s) ==
  IF s = "" THEN ""
  ELSE (IF SubSeq(s, 1, 1) \in {"\"", "*", "#"} THEN "" ELSE SubSeq(s, 1, 1))
       \o StripMarks(SubSeq(s, 2, Len(s)))

\* String.prototype.trim, on blanks
RECURSIVE Trim(_)
Trim(s) ==
  IF s = "" THEN ""
  ELSE IF SubSeq(s, 1, 1) = " " THEN Trim(SubSeq(s, 2, Len(s)))
  ELSE IF SubSeq(s, Len(s), Len(s)) = " " THEN Trim(SubSeq(s, 1, Len(s) - 1))
  ELSE s

\* Variant of GeneratedTitle that has no fallback title
GeneratedTitleNoFallback(response) ==
  IF response = None THEN "" ELSE Trim(StripMarks(response[1]))

\* What generateTitle resolves to: the cleaned response, or the fallback title
\* when the request failed.
GeneratedTitle(response) ==
  IF response = None THEN FallbackTitle ELSE Trim(StripMarks(response[1]))

\* responses of the title request; None is a failed request
TitleResponses == {None, Some("\"Trip\" ")}

\* generateTitle(...).then(title => setConversations(...))
TitleResolve(r, response) ==
  /\ Render(Retitle(conversations, r.conv, GeneratedTitle(response)),
            activeConversationId, context, location)
  /\ titleReqs' = titleReqs \ {r}
  /\ last' = [op |-> "titleResolve", conv |-> r.conv, failed |-> (response = None),
              was |-> LET c == FindConversation(conversations, r.conv)
                      IN  IF c = None THEN None ELSE Some(c[1].title)]
  /\ UNCHANGED <<mountUpdate, input, imagePreviews, imageError, filePromises,
                 isLoading, error, initialBotMessageId, playbacks, nextId, nextConvId, sends, timers>>

(* ------------------------------ message item -------------------------- *)
\* MessageItem.handleSaveAndSubmit on the rendered message with the id, with
\* the text of the edit box: refused while loading, when the trimmed text is
\* the message's, and when it is empty and the message has no images.
SaveAndSubmit(messageId, editedText) ==
  LET c == FindConversation(conversations, activeConversationId)
      k == IF c = None THEN 0 ELSE FindIndex(c[1].messages, messageId)
      message == c[1].messages[k]
  IN  /\ k # 0
      /\ IF \/ isLoading
            \/ Trim(editedText) = Trim(message.text)
            \/ (Trim(editedText) = "" /\ NoImages(message.images))
         THEN /\ last' = [op |-> "saveAndSubmit", index |-> 0]
              /\ UNCHANGED <<mountUpdate, input, imagePreviews, imageError, filePromises,
                             conversations, activeConversationId, chatSession, isLoading,
                             context, error, location, chatHistory, initialBotMessageId,
                             playbacks, nextId, nextConvId, sends, timers, titleReqs,
                             geoPending>>
         ELSE EditMessage(messageId, Trim(editedText))

(* ------------------------------- feedback ----------------------------- *)
\* Variant of NewFeedback that never clears
NewFeedbackAlwaysSet(current, feedback) == feedback

\* m.feedback === feedback ? null : feedback
NewFeedback(current, feedback) == IF current = feedback THEN "null" ELSE feedback

ApplyFeedback(convs, act, messageId, feedback) ==
  MapConv(convs, act,
    [c \in Matching(convs, act) |->
       [c EXCEPT !.messages =
          MapMsg(@, messageId,
            [m \in Matching(c.messages, messageId) |->
               [m EXCEPT !.feedback = NewFeedback(@, feedback)]])]])

Feedback(messageId, feedback) ==
  LET c == FindConversation(conversations, activeConversationId)
      k == IF c = None THEN 0 ELSE FindIndex(c[1].messages, messageId)
  IN  /\ Render(IF activeConversationId = NoId THEN conversations
                ELSE ApplyFeedback(conversations, activeConversationId, messageId, feedback),
                activeConversationId, context, location)
      /\ last' = IF k = 0 THEN [op |-> "feedback", index |-> 0]
                  ELSE [op |-> "feedback", id |-> messageId, tag |-> feedback, index |-> k,
                        was |-> c[1].messages[k].feedback]
      /\ UNCHANGED <<mountUpdate, input, imagePreviews, imageError, filePromises,
                     isLoading, error, initialBotMessageId, playbacks, nextId, nextConvId, sends, timers,
                 titleReqs>>

(* ------------------------------- playback ----------------------------- *)
\* c.messages.map(m => m.id === messageId ? { ...m, isPlaying: flag } : m) in
\* the conversation conv
SetPlaying(convs, conv, messageId, flag) ==
  MapConv(convs, conv,
    [c \in Matching(convs, conv) |->
       [c EXCEPT !.messages =
          MapMsg(@, messageId,
            [m \in Matching(c.messages, messageId) |-> [m EXCEPT !.isPlaying = flag]])]])

\* handlePlayAudio up to its first await: the flag is set in the conversation
\* that is active, whose id the later callbacks keep.
PlayAudio(messageId) ==
  /\ Cardinality(playbacks) < MaxPlaybacks
  /\ Render(SetPlaying(conversations, activeConversationId, messageId, "true"),
            activeConversationId, context, location)
  /\ playbacks' = playbacks \cup {[conv |-> activeConversationId, id |-> messageId]}
  /\ last' = [op |-> "playAudio", id |-> messageId]
  /\ UNCHANGED <<mountUpdate, input, imagePreviews, imageError, filePromises,
                 isLoading, error, initialBotMessageId, nextId, nextConvId, sends, timers,
                 titleReqs>>

\* source.onended
PlayEnd(p) ==
  /\ Render(SetPlaying(conversations, p.conv, p.id, "false"),
            activeConversationId, context, location)
  /\ playbacks' = playbacks \ {p}
  /\ last' = [op |-> "playEnd", id |-> p.id]
  /\ UNCHANGED <<mountUpdate, input, imagePreviews, imageError, filePromises,
                 isLoading, error, initialBotMessageId, nextId, nextConvId, sends, timers,
                 titleReqs>>

\* generateSpeech or decodeAudioData rejects: the catch block
PlayFail(p, message) ==
  /\ Render(SetPlaying(conversations, p.conv, p.id, "false"),
            activeConversationId, context, location)
  /\ error' = Some("TTS Error: " \o message)
  /\ playbacks' = playbacks \ {p}
  /\ last' = [op |-> "playFail", id |-> p.id]
  /\ UNCHANGED <<mountUpdate, input, imagePreviews, imageError, filePromises,
                 isLoading, initialBotMessageId, nextId, nextConvId, sends, timers,
                 titleReqs>>

(* ------------------------------ chat input ---------------------------- *)
\* const maxFiles = 5
maxFiles == 5
\* maxSizeInMB * 1024 * 1024
MaxFileSize == 5 * 1024 * 1024
allowedTypes == {"image/jpeg", "image/png", "image/webp", "image/gif"}

\* Files the picker can hand over: two images (one of exactly the largest
\* size allowed), a file of another type, an image one byte too large, and an
\* image the reader fails on.
FileA == [name |-> "a.png", type |-> "image/png", size |-> 1024, data |-> "QUJD",
          readable |-> TRUE]
FileB == [name |-> "b.gif", type |-> "image/gif", size |-> MaxFileSize, data |-> "REVG",
          readable |-> TRUE]
FilePdf == [name |-> "c.pdf", type |-> "application/pdf", size |-> 1024, data |-> "JVBE",
            readable |-> TRUE]
FileBig == [name |-> "d.png", type |-> "image/png", size |-> MaxFileSize + 1, data |-> "QUJD",
            readable |-> TRUE]
FileCorrupt == [name |-> "e.png", type |-> "image/png", size |-> 1024, data |-> "",
                readable |-> FALSE]

\* e.target.files of one change event
Selections ==
  {<<>>, <<FileA>>, <<FileA, FileB, FileA>>, <<FileB, FilePdf>>, <<FileBig, FilePdf>>,
   <<FileCorrupt, FileA>>}

\* reader.readAsDataURL(file): loadEvent.target.result
DataUrl(file) == "data:" \o file.type \o ";base64," \o file.data

\* The rejection a file's promise makes inside its executor, before any read
Rejection(file) ==
  IF file.type \notin allowedTypes
  THEN Some("Invalid file type. Please select JPG, PNG, WEBP, or GIF.")
  ELSE IF file.size > MaxFileSize
  THEN Some("File \"" \o file.name \o "\" is too large. Maximum size is 5MB.")
  ELSE None

\* What Promise.all is rejected with before any read ends: the rejection of
\* the first file, in order, that is refused by type or size.
RECURSIVE FirstRejection(_)
FirstRejection(files) ==
  IF files = <<>> THEN None
  ELSE IF Rejection(Head(files)) # None THEN Rejection(Head(files))
  ELSE FirstRejection(Tail(files))

\* imagePreviews.length + files.length > maxFiles
TooMany(previews, files) == Len(previews) + Len(files) > maxFiles

\* Array.from(files).map(...): the previews of a selection, in file order
Previews(files) == [i \in 1..Len(files) |-> DataUrl(files[i])]

\* The sequence without its element at position i
RemoveAt(seq, i) == [j \in 1..(Len(seq) - 1) |-> IF j < i THEN seq[j] ELSE seq[j + 1]]

\* handleImageChange, with the catch of a selection refused by type or size,
\* which runs before any other handler.
HandleImageChange(files) ==
  /\ IF files = <<>>
     THEN /\ imageError' = None
          /\ UNCHANGED filePromises
     ELSE IF TooMany(imagePreviews, files)
     THEN /\ imageError' = Some("You can upload a maximum of 5 images.")
          /\ UNCHANGED filePromises
     ELSE IF FirstRejection(files) # None
     THEN /\ imageError' = FirstRejection(files)
          /\ UNCHANGED filePromises
     ELSE /\ imageError' = None
          /\ filePromises' = Append(filePromises, files)
  /\ last' = [op |-> "imageChange", count |-> Len(files)]
  /\ UNCHANGED <<mountUpdate, conversations, activeConversationId, chatSession, isLoading, context,
                 error, location, chatHistory, initialBotMessageId, nextId, nextConvId,
                 sends, timers, titleReqs, geoPending, playbacks, input, imagePreviews>>

\* Every read of the selection at position i ended: Promise.all resolves.
ReadsDone(i) ==
  /\ \A k \in 1..Len(filePromises[i]) : filePromises[i][k].readable
  /\ imagePreviews' = imagePreviews \o Previews(filePromises[i])
  /\ filePromises' = RemoveAt(filePromises, i)
  /\ last' = [op |-> "readsDone", count |-> Len(filePromises[i])]
  /\ UNCHANGED <<mountUpdate, conversations, activeConversationId, chatSession, isLoading, context,
                 error, location, chatHistory, initialBotMessageId, nextId, nextConvId,
                 sends, timers, titleReqs, geoPending, playbacks, input, imageError>>

\* reader.onerror for file k of the selection at position i: Promise.all
\* rejects and the catch sets the error.
ReadFails(i, k) ==
  /\ ~ filePromises[i][k].readable
  /\ imageError' = Some("Failed to read \"" \o filePromises[i][k].name
                        \o "\". It might be corrupted.")
  /\ filePromises' = RemoveAt(filePromises, i)
  /\ last' = [op |-> "readFails", count |-> Len(filePromises[i])]
  /\ UNCHANGED <<mountUpdate, conversations, activeConversationId, chatSession, isLoading, context,
                 error, location, chatHistory, initialBotMessageId, nextId, nextConvId,
                 sends, timers, titleReqs, geoPending, playbacks, input, imagePreviews>>

\* handleRemoveImage
RemoveImage(indexToRemove) ==
  /\ imagePreviews' = RemoveAt(imagePreviews, indexToRemove)
  /\ imageError' = None
  /\ last' = [op |-> "removeImage"]
  /\ UNCHANGED <<mountUpdate, conversations, activeConversationId, chatSession, isLoading, context,
                 error, location, chatHistory, initialBotMessageId, nextId, nextConvId,
                 sends, timers, titleReqs, geoPending, playbacks, input, filePromises>>

\* The textarea's onChange (and the recognition's onresult): setInput
ChangeInput(text) ==
  /\ input' = text
  /\ last' = [op |-> "changeInput"]
  /\ UNCHANGED <<mountUpdate, conversations, activeConversationId, chatSession, isLoading, context,
                 error, location, chatHistory, initialBotMessageId, nextId, nextConvId,
                 sends, timers, titleReqs, geoPending, playbacks, imagePreviews, imageError,
                 filePromises>>

\* handleSubmit: the prompt and the previews go to handleSendMessage and the
\* input is emptied, whether or not handleSendMessage accepts them.
Submit ==
  IF isLoading \/ imageError # None \/ (Trim(input) = "" /\ Len(imagePreviews) = 0)
  THEN /\ last' = [op |-> "submit", outcome |-> "ignored"]
       /\ UNCHANGED <<mountUpdate, conversations, activeConversationId, chatSession, isLoading, context,
                      error, location, chatHistory, initialBotMessageId, nextId, nextConvId,
                      sends, timers, titleReqs, geoPending, playbacks, input, imagePreviews,
                      imageError, filePromises>>
  ELSE /\ HandleSendMessage(Trim(input),
                            IF Len(imagePreviews) > 0 THEN Some(imagePreviews) ELSE None,
                            Closure, "input")
       /\ input' = ""
       /\ imagePreviews' = <<>>
       /\ imageError' = None
       /\ UNCHANGED <<mountUpdate, initialBotMessageId, playbacks, nextConvId, timers, filePromises>>

(* -------------------------------- export ------------------------------ *)
\* msg.role.toUpperCase()
RoleLabel(role) == IF role = USER THEN "USER" ELSE "MODEL"

\* The decimal text of a count below ten (template literal of a number)
Digit(n) == SubSeq("0123456789", n + 1, n + 1)

\* msg.sources.forEach(source => content += `- ${source.title}: ${source.uri}\n`)
RECURSIVE SourceLines(_)
SourceLines(sources) ==
  IF sources = <<>> THEN ""
  ELSE "- " \o Head(sources).title \o ": " \o Head(sources).uri \o "\n"
       \o SourceLines(Tail(sources))

\* What the forEach callback of the export adds for one message
ExportMessage(msg) ==
  "[" \o RoleLabel(msg.role) \o "]\n"
  \o (IF msg.images # None /\ Len(msg.images[1]) > 0
      THEN "(" \o Digit(Len(msg.images[1])) \o " image(s) attached)\n" ELSE "")
  \o msg.text \o "\n\n"
  \o (IF msg.sources # None /\ Len(msg.sources[1]) > 0
      THEN "Sources:\n" \o SourceLines(msg.sources[1]) \o "\n" ELSE "")

\* Variant of ExportedMessages that keeps the first message
ExportedMessagesAll(messages) == messages

\* messages.slice(1)
ExportedMessages(messages) == SubSeq(messages, 2, Len(messages))

RECURSIVE ExportMessages(_)
ExportMessages(messages) ==
  IF messages = <<>> THEN ""
  ELSE ExportMessage(Head(messages)) \o ExportMessages(Tail(messages))

\* The content handleExportConversation downloads for conversation c, with the
\* context cell ctx.
ExportContent(c, ctx) ==
  "# Conversation: " \o c.title \o "\n"
  \o "Mode: " \o c.mode \o "\n\n"
  \o "--- CONTEXT ---\n" \o (IF ctx = "" THEN "No context provided." ELSE ctx)
  \o "\n--- END CONTEXT ---\n\n"
  \o "--- MESSAGES ---\n\n"
  \o ExportMessages(ExportedMessages(c.messages))

ExportError == "No active conversation to export."

\* handleExportConversation: the download's content, or the error when no
\* conversation is active.
ExportConversation ==
  LET c == FindConversation(conversations, activeConversationId)
  IN  /\ error' = IF c = None THEN Some(ExportError) ELSE error
      /\ last' = [op |-> "export",
                  content |-> IF c = None THEN None ELSE Some(ExportContent(c[1], context))]
      /\ UNCHANGED <<mountUpdate, input, imagePreviews, imageError, filePromises,
                     conversations, activeConversationId, chatSession, isLoading, context,
                     location, chatHistory, initialBotMessageId, playbacks, nextId,
                     nextConvId, sends, timers, titleReqs, geoPending>>

(* ------------------------------ environment --------------------------- *)
\* What else the 'chatHistory' entry can hold when the page loads: nothing,
\* text that is not JSON, JSON that is not an array, an empty array.
ForeignValues == {Absent, [kind |-> "text"], [kind |-> "value"], Stored(<<>>)}

\* The entry is removed or overwritten from outside the page (site data
\* cleared, another program writing the key).
StorageWrite(v) ==
  /\ chatHistory' = v
  /\ last' = [op |-> "storageWrite"]
  /\ UNCHANGED <<mountUpdate, input, imagePreviews, imageError, filePromises,
                 conversations, activeConversationId, chatSession, isLoading, context,
                 error, location, initialBotMessageId, playbacks, nextId, nextConvId, sends,
                 timers, titleReqs, geoPending>>

\* getCurrentPosition's success callback
GeoGrant ==
  /\ geoPending
  /\ location' = Some(Coords)
  /\ error' = None
  /\ geoPending' = FALSE
  /\ last' = [op |-> "geoGrant"]
  /\ UNCHANGED <<mountUpdate, input, imagePreviews, imageError, filePromises,
                 conversations, activeConversationId, chatSession, isLoading, context,
                 chatHistory, initialBotMessageId, playbacks, nextId, nextConvId, sends, timers,
                 titleReqs>>

\* getCurrentPosition's error callback
GeoDeny ==
  /\ geoPending
  /\ error' = Some(GeolocationRequired)
  /\ geoPending' = FALSE
  /\ last' = [op |-> "geoDeny"]
  /\ UNCHANGED <<mountUpdate, input, imagePreviews, imageError, filePromises,
                 conversations, activeConversationId, chatSession, isLoading, context,
                 location, chatHistory, initialBotMessageId, playbacks, nextId, nextConvId, sends,
                 timers, titleReqs>>

\* The banner's 5 second timer
ClearError ==
  /\ error # None
  /\ error' = None
  /\ last' = [op |-> "clearError"]
  /\ UNCHANGED <<mountUpdate, input, imagePreviews, imageError, filePromises,
                 conversations, activeConversationId, chatSession, isLoading, context,
                 location, chatHistory, initialBotMessageId, playbacks, nextId, nextConvId, sends,
                 timers, titleReqs, geoPending>>

(* ------------------------------- startup ------------------------------ *)
\* The list the load effect leaves: the stored array when it is a non-empty
\* array, handleNewChat's list otherwise.
\* Variant of LoadList that takes any stored array, an empty one too
LoadListAnyArray(stored, id, gid) ==
  IF stored.kind = "array"
  THEN Parse(stored.items)
  ELSE <<NewConversation(id, gid)>>

LoadList(stored, id, gid) ==
  IF stored.kind = "array" /\ Len(stored.items) > 0
  THEN Parse(stored.items)
  ELSE <<NewConversation(id, gid)>>

LoadActive(stored, id) ==
  IF stored.kind = "array" /\ Len(stored.items) > 0
  THEN Parse(stored.items)[1].id
  ELSE id

\* The page is loaded again: the module is evaluated (a new initialBotMessage),
\* every useState cell starts from its initial value, what was suspended is
\* gone, and the mount effects run to their end.
Reload ==
  LET loaded == chatHistory.kind = "array" /\ Len(chatHistory.items) > 0
      gid == nextId
      convs == LoadList(chatHistory, nextConvId, gid)
      act == LoadActive(chatHistory, nextConvId)
  IN  /\ nextId <= MaxId
      /\ ~loaded => nextConvId <= MaxConvId
      /\ initialBotMessageId' = gid
      /\ nextId' = nextId + 1
      /\ nextConvId' = IF loaded THEN nextConvId ELSE nextConvId + 1
      /\ conversations' = convs
      /\ activeConversationId' = act
      /\ chatHistory' = PersistEffect(convs)
      /\ chatSession' = BinderSession(convs, act, None)
      /\ context' = BinderContext(convs, act, "")
      /\ location' = None
      /\ geoPending' = (ActiveMode(convs, act) = MAPS)
      /\ isLoading' = FALSE
      /\ error' = None
      /\ sends' = {}
      /\ timers' = <<>>
      /\ titleReqs' = {}
      /\ playbacks' = {}
      /\ input' = ""
      /\ imagePreviews' = <<>>
      /\ imageError' = None
      /\ filePromises' = <<>>
      /\ mountUpdate' = None
      /\ last' = [op |-> "reload", active |-> activeConversationId,
                  stored |-> chatHistory.kind]

\* The first half of a page load: the module is evaluated, every useState cell
\* takes its initial value, and the effects of the first render run in the
\* order of their declaration.  The load effect reads the entry and queues
\* the list and the pointer; the persist effect, on the empty list of the
\* first render, removes the entry; the binder finds no active conversation.
Mount ==
  LET loaded == chatHistory.kind = "array" /\ Len(chatHistory.items) > 0
      gid == nextId
  IN  /\ nextId <= MaxId
      /\ ~loaded => nextConvId <= MaxConvId
      /\ initialBotMessageId' = gid
      /\ nextId' = nextId + 1
      /\ nextConvId' = IF loaded THEN nextConvId ELSE nextConvId + 1
      /\ mountUpdate' = Some([conversations |-> LoadList(chatHistory, nextConvId, gid),
                              activeConversationId |-> LoadActive(chatHistory, nextConvId),
                              loaded |-> loaded])
      /\ conversations' = <<>>
      /\ activeConversationId' = NoId
      /\ chatHistory' = PersistEffect(<<>>)
      /\ chatSession' = None
      /\ context' = ""
      /\ location' = None
      /\ geoPending' = FALSE
      /\ isLoading' = FALSE
      /\ error' = None
      /\ sends' = {}
      /\ timers' = <<>>
      /\ titleReqs' = {}
      /\ playbacks' = {}
      /\ input' = ""
      /\ imagePreviews' = <<>>
      /\ imageError' = None
      /\ filePromises' = <<>>
      /\ last' = [op |-> "mount", active |-> activeConversationId,
                  stored |-> chatHistory.kind]

\* The second half: the render of the queued list and pointer, with the
\* persist effect, the binder and the geolocation effect.
MountRender ==
  /\ mountUpdate # None
  /\ LET convs == mountUpdate[1].conversations
         act == mountUpdate[1].activeConversationId
     IN  /\ conversations' = convs
         /\ activeConversationId' = act
         /\ chatHistory' = PersistEffect(convs)
         /\ chatSession' = BinderSession(convs, act, chatSession)
         /\ context' = BinderContext(convs, act, context)
         /\ geoPending' = (ActiveMode(convs, act) = MAPS)
  /\ mountUpdate' = None
  /\ last' = [op |-> "mountRender", loaded |-> mountUpdate[1].loaded]
  /\ UNCHANGED <<location, isLoading, error, initialBotMessageId, nextId, nextConvId, sends,
                 timers, titleReqs, playbacks, input, imagePreviews, imageError,
                 filePromises>>

\* The first load, with nothing stored: initialBotMessage and the conversation
\* handleNewChat creates take the first identifiers.
Init ==
  /\ initialBotMessageId = 1
  /\ nextId = 2
  /\ nextConvId = 2
  /\ conversations = <<NewConversation(1, 1)>>
  /\ activeConversationId = 1
  /\ chatHistory = PersistEffect(<<NewConversation(1, 1)>>)
  /\ chatSession = Some([history |-> <<>>])
  /\ context = ""
  /\ location = None
  /\ geoPending = FALSE
  /\ isLoading = FALSE
  /\ error = None
  /\ sends = {}
  /\ timers = <<>>
  /\ titleReqs = {}
  /\ playbacks = {}
  /\ input = ""
  /\ imagePreviews = <<>>
  /\ imageError = None
  /\ filePromises = <<>>
  /\ mountUpdate = None
  /\ last = [op |-> "init"]

(* ---------------------------- specifications -------------------------- *)
\* ids of the conversations in the list (the sidebar's entries)
ConversationIds == {conversations[i].id : i \in 1..Len(conversations)}

\* ids of the messages of the active conversation (the rendered MessageItems)
ActiveMessageIds ==
  LET c == FindConversation(conversations, activeConversationId)
  IN  IF c = None THEN {} ELSE {c[1].messages[i].id : i \in 1..Len(c[1].messages)}

\* ids of the rendered messages that show the feedback buttons
\* (!isUser && message.text)
FeedbackIds ==
  LET c == FindConversation(conversations, activeConversationId)
  IN  IF c = None THEN {}
      ELSE {c[1].messages[i].id :
              i \in {j \in 1..Len(c[1].messages) :
                       c[1].messages[j].role = MODEL /\ c[1].messages[j].text # ""}}

\* ids of the rendered messages whose play button is enabled
\* (!isUser && message.text, disabled={message.isPlaying})
PlayIds ==
  LET c == FindConversation(conversations, activeConversationId)
  IN  IF c = None THEN {}
      ELSE {c[1].messages[i].id :
              i \in {j \in 1..Len(c[1].messages) :
                       /\ c[1].messages[j].role = MODEL
                       /\ c[1].messages[j].text # ""
                       /\ c[1].messages[j].isPlaying # "true"}}

\* The store's list operations, sends that resolve, feedback and reloads.
NextStore ==
  \/ nextConvId <= StoreConvIds /\ Len(conversations) < StoreConvs /\ NewChat
  \/ \E id \in ConversationIds : SelectConversation(id)
  \/ (Len(conversations) = 1 => nextConvId <= StoreConvIds)
     /\ \E id \in ConversationIds \cup {AbsentConversation} : DeleteConversation(id)
  \/ nextConvId <= StoreConvIds /\ ClearAllConversations
  \/ nextId < StoreIds /\ \E in \in SendInputs : SendMessage(in[1], in[2])
  \/ \E s \in sends : \E text \in ResponseTexts : SendResolve(s, text)
  \/ \E id \in FeedbackIds \cup {AbsentMessage} : \E tag \in {"up", "down"} : Feedback(id, tag)
  \/ nextId <= StoreIds /\ Reload

SpecStore == Init /\ [][NextStore]_vars

\* The conversation list: conversations are opened, selected, renamed and
\* deleted, by ids in the list and by an id that is not, and one send gives
\* a conversation more than its greeting.
NextList ==
  \/ nextConvId <= ListConvIds /\ NewChat
  \/ \E id \in ConversationIds \cup {AbsentConversation} : SelectConversation(id)
  \/ (Len(conversations) = 1 => nextConvId <= ListConvIds)
     /\ \E id \in ConversationIds \cup {AbsentConversation} : DeleteConversation(id)
  \/ \E id \in ConversationIds : RenameConversation(id, "Trip")
  \/ nextConvId <= ListConvIds /\ ClearAllConversations
  \/ nextId < ListIds /\ SendMessage("hi", None)
  \/ \E s \in sends : \E text \in ResponseTexts : SendResolve(s, text)

SpecList == Init /\ [][NextList]_vars

\* Sends that resolve or reject, edits and their deferred re-sends, while the
\* user also opens, selects and deletes conversations.
NextSend ==
  \/ nextId < SendIds /\ \E in \in SendInputs : SendMessage(in[1], in[2])
  \/ \E s \in sends : \E text \in ResponseTexts : SendResolve(s, text)
  \/ \E s \in sends : \E message \in RejectMessages : SendReject(s, message)
  \/ \E id \in ActiveMessageIds \cup {AbsentMessage} : \E text \in EditTexts :
       EditMessage(id, text)
  \/ nextId < SendIds /\ TimerFire
  \/ nextConvId <= SendConvIds /\ NewChat
  \/ \E id \in ConversationIds : SelectConversation(id)
  \/ (Len(conversations) = 1 => nextConvId <= SendConvIds)
     /\ \E id \in ConversationIds : DeleteConversation(id)

SpecSend == Init /\ [][NextSend]_vars

\* One conversation: sends that resolve or reject, edits and their deferred
\* re-sends.
NextEdit ==
  \/ nextId < EditIds /\ \E in \in SendInputs : SendMessage(in[1], in[2])
  \/ \E s \in sends : \E text \in ResponseTexts : SendResolve(s, text)
  \/ \E s \in sends : \E message \in RejectMessages : SendReject(s, message)
  \/ \E id \in ActiveMessageIds \cup {AbsentMessage} : \E text \in EditTexts :
       EditMessage(id, text)
  \/ nextId < EditIds /\ TimerFire

SpecEdit == Init /\ [][NextEdit]_vars

\* A pending remote call settles: it resolves or it rejects.
Complete ==
  \E s \in sends :
    \/ \E text \in ResponseTexts : SendResolve(s, text)
    \/ \E message \in RejectMessages : SendReject(s, message)

\* One conversation and text prompts: sends, edits and their deferred
\* re-sends, where every pending remote call eventually settles.
NextLive ==
  \/ nextId < LiveIds /\ \E prompt \in {"", "hi"} : SendMessage(prompt, None)
  \/ \E s \in sends : \E text \in ResponseTexts : SendResolve(s, text)
  \/ \E s \in sends : \E message \in RejectMessages : SendReject(s, message)
  \/ \E id \in ActiveMessageIds \cup {AbsentMessage} : \E text \in EditTexts :
       EditMessage(id, text)
  \/ nextId < LiveIds /\ TimerFire

SpecLive == Init /\ [][NextLive]_vars /\ WF_vars(Complete)

\* Conversations that are opened, deleted and cleared while sends, edits and
\* their re-sends, feedback and exports go on in the active one.
NextApp ==
  \/ nextConvId <= AppConvIds /\ NewChat
  \/ (Len(conversations) = 1 => nextConvId <= AppConvIds)
     /\ \E id \in ConversationIds : DeleteConversation(id)
  \/ nextConvId <= AppConvIds /\ ClearAllConversations
  \/ nextId < AppIds /\ \E in \in {<<"hi", None>>, <<"", Some(<<Image>>)>>} :
       SendMessage(in[1], in[2])
  \/ \E s \in sends : \E text \in ResponseTexts : SendResolve(s, text)
  \/ \E s \in sends : SendReject(s, "Service unavailable")
  \/ \E id \in ActiveMessageIds : EditMessage(id, "yo")
  \/ nextId < AppIds /\ TimerFire
  \/ \E id \in FeedbackIds : Feedback(id, "up")
  \/ ExportConversation

SpecApp == Init /\ [][NextApp]_vars

\* Page loads over whatever the 'chatHistory' entry holds: what the page
\* itself wrote after its list operations and sends, or a foreign value.
NextLoad ==
  \/ nextConvId <= LoadConvIds /\ NewChat
  \/ \E id \in ConversationIds : SelectConversation(id)
  \/ (Len(conversations) = 1 => nextConvId <= LoadConvIds)
     /\ \E id \in ConversationIds : DeleteConversation(id)
  \/ nextId < LoadIds /\ SendMessage("hi", None)
  \/ \E s \in sends : \E text \in ResponseTexts : SendResolve(s, text)
  \/ \E v \in ForeignValues : StorageWrite(v)
  \/ nextId <= LoadIds /\ (chatHistory.kind = "array" \/ nextConvId <= LoadConvIds) /\ Reload

SpecLoad == Init /\ [][NextLoad]_vars

\* Title requests that resolve or fail late: meanwhile the user renames,
\* selects, opens and deletes conversations, and sends resolve or reject.
NextTitle ==
  \/ nextConvId <= TitleConvIds /\ NewChat
  \/ \E id \in ConversationIds : SelectConversation(id)
  \/ (Len(conversations) = 1 => nextConvId <= TitleConvIds)
     /\ \E id \in ConversationIds : DeleteConversation(id)
  \/ nextConvId <= TitleConvIds /\ ClearAllConversations
  \/ \E id \in ConversationIds : RenameConversation(id, "Mine")
  \/ nextId < TitleIds /\ SendMessage("hi", None)
  \/ \E s \in sends : \E text \in ResponseTexts : SendResolve(s, text)
  \/ \E s \in sends : SendReject(s, "Service unavailable")
  \/ \E r \in titleReqs : \E response \in TitleResponses : TitleResolve(r, response)

SpecTitle == Init /\ [][NextTitle]_vars

\* What the session binder follows: the user selects among conversations of
\* different modes and switches the mode of the active one, and sends,
\* replies, edits and their re-sends change its messages.
NextBind ==
  \/ nextConvId <= BindConvIds /\ NewChat
  \/ \E id \in ConversationIds : SelectConversation(id)
  \/ \E m \in {CHAT, THINKING} : SetMode(m)
  \/ nextId < BindIds /\ \E in \in {<<"hi", None>>, <<"", Some(<<Image>>)>>} :
       SendMessage(in[1], in[2])
  \/ \E s \in sends : \E text \in ResponseTexts : SendResolve(s, text)
  \/ \E s \in sends : SendReject(s, "Service unavailable")
  \/ \E id \in ActiveMessageIds : EditMessage(id, "yo")
  \/ nextId < BindIds /\ TimerFire

SpecBind == Init /\ [][NextBind]_vars

\* The input box: files are picked while earlier picks are still being read,
\* previews are removed, text is typed and the prompt is submitted.
NextInput ==
  \/ Len(filePromises) < MaxFilePromises /\ \E files \in Selections : HandleImageChange(files)
  \/ \E i \in 1..Len(filePromises) : ReadsDone(i)
  \/ \E i \in 1..Len(filePromises) : \E k \in 1..Len(filePromises[i]) : ReadFails(i, k)
  \/ imagePreviews # <<>> /\ RemoveImage(1)
  \/ \E text \in {"", " hi "} : ChangeInput(text)
  \/ nextId < InputIds /\ Submit
  \/ \E s \in sends : \E text \in ResponseTexts : SendResolve(s, text)

SpecInput == Init /\ [][NextInput]_vars

\* ids of the user messages of the active conversation, which show the edit
\* box
UserMessageIds ==
  LET c == FindConversation(conversations, activeConversationId)
  IN  IF c = None THEN {}
      ELSE {c[1].messages[i].id :
              i \in {j \in 1..Len(c[1].messages) : c[1].messages[j].role = USER}}

\* Edits as the message list issues them, with the sends of the input box
\* and their results.
NextResend ==
  \/ nextId < ResendIds /\ \E in \in {<<"hi", None>>, <<"", Some(<<Image>>)>>} :
       SendMessage(in[1], in[2])
  \/ \E s \in sends : \E text \in ResponseTexts : SendResolve(s, text)
  \/ \E s \in sends : SendReject(s, "Service unavailable")
  \/ \E id \in UserMessageIds : \E text \in {"", " yo ", "hi"} : SaveAndSubmit(id, text)
  \/ nextId < ResendIds /\ TimerFire

SpecResend == Init /\ [][NextResend]_vars

\* Page loads in their two halves, over what the page wrote after its list
\* operations and sends or over a foreign value; no handler runs between the
\* halves.
NextStartup ==
  \/ /\ mountUpdate = None
     /\ nextId <= StartupIds
     /\ (chatHistory.kind = "array" \/ nextConvId <= StartupConvIds)
     /\ Mount
  \/ MountRender
  \/ mountUpdate = None /\ nextConvId <= StartupConvIds /\ NewChat
  \/ mountUpdate = None /\ \E id \in ConversationIds : SelectConversation(id)
  \/ mountUpdate = None /\ nextId < StartupIds /\ SendMessage("hi", None)
  \/ mountUpdate = None /\ \E s \in sends : \E text \in ResponseTexts : SendResolve(s, text)
  \/ mountUpdate = None /\ \E v \in ForeignValues : StorageWrite(v)

SpecStartup == Init /\ [][NextStartup]_vars

\* A playback settles: it ends or its request fails.
PlaySettles ==
  \E p \in playbacks : PlayEnd(p) \/ PlayFail(p, "Service unavailable")

\* Playback of the greeting and of replies, while the user opens and selects
\* conversations and the page is loaded again.
NextPlay ==
  \/ nextId < PlayMsgIds /\ SendMessage("hi", None)
  \/ \E s \in sends : \E text \in ResponseTexts : SendResolve(s, text)
  \/ \E id \in PlayIds : PlayAudio(id)
  \/ \E p \in playbacks : PlayEnd(p)
  \/ \E p \in playbacks : PlayFail(p, "Service unavailable")
  \/ nextConvId <= PlayConvIds /\ NewChat
  \/ \E id \in ConversationIds : SelectConversation(id)
  \/ nextId <= PlayMsgIds /\ Reload

SpecPlay == Init /\ [][NextPlay]_vars /\ WF_vars(PlaySettles)

\* What is written to the store: sends with their title requests, playback
\* of the replies, and the list operations.
NextPersist ==
  \/ nextConvId <= PersistConvIds /\ NewChat
  \/ \E id \in ConversationIds \cup {AbsentConversation} : SelectConversation(id)
  \/ (Len(conversations) = 1 => nextConvId <= PersistConvIds)
     /\ \E id \in ConversationIds : DeleteConversation(id)
  \/ nextConvId <= PersistConvIds /\ ClearAllConversations
  \/ \E id \in ConversationIds : RenameConversation(id, "Trip")
  \/ nextId < PersistIds /\ SendMessage("hi", None)
  \/ \E s \in sends : \E text \in ResponseTexts : SendResolve(s, text)
  \/ \E r \in titleReqs : \E response \in TitleResponses : TitleResolve(r, response)
  \/ \E id \in PlayIds : PlayAudio(id)
  \/ \E p \in playbacks : PlayEnd(p)
  \/ \E p \in playbacks : PlayFail(p, "Service unavailable")

SpecPersist == Init /\ [][NextPersist]_vars

\* One conversation whose mode the user switches, with the device location
\* granted or denied, sends, edits, and clearAll.
NextMode ==
  \/ \E m \in ChatModes : SetMode(m)
  \/ nextId < ModeIds /\ \E in \in SendInputs : SendMessage(in[1], in[2])
  \/ \E s \in sends : \E text \in ResponseTexts : SendResolve(s, text)
  \/ \E s \in sends : \E message \in RejectMessages : SendReject(s, message)
  \/ \E id \in ActiveMessageIds : EditMessage(id, "yo")
  \/ nextId < ModeIds /\ TimerFire
  \/ GeoGrant
  \/ GeoDeny
  \/ nextConvId <= ModeConvIds /\ ClearAllConversations

SpecMode == Init /\ [][NextMode]_vars

(* ------------------------------ properties ---------------------------- *)
\* The conversation at the head of the list holds only the greeting.
GreetingOnly(c) ==
  /\ Len(c.messages) = 1
  /\ c.messages[1].role = MODEL
  /\ c.messages[1].text = GreetingText

\* C1: after deleteConversation(id) on a list that holds only the conversation
\* with that id, the list holds exactly one conversation: a fresh one (another
\* id), greeting only, active; the deleted conversation is gone.
C1_DeleteSoleLeavesOneFresh ==
  (last.op = "deleteConversation" /\ last.index = 1 /\ last.count = 1)
    => /\ Len(conversations) = 1
       /\ conversations[1].id # last.id
       /\ GreetingOnly(conversations[1])
       /\ activeConversationId = conversations[1].id
       /\ FindIndex(conversations, last.id) = 0

\* C2 as stated: a reload (the list was persisted, the startup load runs) gives
\* back the same conversations, in order, and the same active id.
C2_ReloadKeepsListAndActive ==
  [][last'.op = "reload"
       => conversations' = conversations /\ activeConversationId' = activeConversationId]_vars

\* C2 amended: a reload gives back the same conversations in the same order,
\* with the same messages in the same order; the active id becomes the id of
\* the first conversation of the list, so it is the id from before the reload
\* exactly when that conversation was first.
C2_ReloadKeepsListActivatesFirst ==
  [][last'.op = "reload"
       => /\ conversations' = conversations
          /\ activeConversationId' = conversations[1].id]_vars

\* A reload happened while the second conversation was active, with a
\* conversation that holds more than the greeting and a cleared feedback tag.
C2_Witness ==
  /\ last.op = "reload"
  /\ Len(conversations) >= 2
  /\ last.active = conversations[2].id
  /\ activeConversationId = conversations[1].id
  /\ \E i \in 1..Len(conversations) :
       /\ Len(conversations[i].messages) >= 2
       /\ \E k \in 1..Len(conversations[i].messages) :
            conversations[i].messages[k].feedback = "null"

\* C3: at most one sendMessage is between its dispatch and its completion,
\* whatever the interleaving of sends from the chat input and re-sends deferred
\* by editMessage.
C3_AtMostOneSendInFlight == Cardinality(sends) <= 1

\* The messages of the active conversation
ActiveMessages ==
  LET c == FindConversation(conversations, activeConversationId)
  IN  IF c = None THEN <<>> ELSE c[1].messages

\* The positions of the messages of the active conversation that carry the id
PositionsOf(id) == {i \in 1..Len(ActiveMessages) : ActiveMessages[i].id = id}

\* C4: editMessage on a user message at index k >= 1 (position k + 1) of the
\* active conversation, with no send in flight, leaves that conversation with
\* exactly its first k messages, unchanged and in order, and every other
\* conversation as it was.
C4_EditTruncatesToPrefix ==
  [][\A id \in ActiveMessageIds : \A text \in EditTexts :
       \A p \in PositionsOf(id) :
         (/\ EditMessage(id, text)
          /\ sends = {}
          /\ p >= 2
          /\ ActiveMessages[p].role = USER)
         => /\ Len(conversations') = Len(conversations)
            /\ \A i \in 1..Len(conversations) :
                 conversations'[i] =
                   IF conversations[i].id = activeConversationId
                   THEN [conversations[i] EXCEPT
                           !.messages = [j \in 1..(p - 1) |-> conversations[i].messages[j]]]
                   ELSE conversations[i]]_vars

\* The user message at index 2 of 5 messages was edited: the first 2 are left.
C4_Witness ==
  /\ last.op = "editMessage"
  /\ last.index = 3
  /\ last.len = 5
  /\ Len(ActiveMessages) = 2
  /\ sends = {}

\* C5: editMessage changes nothing (list, messages, titles, in-flight flag,
\* banner, pending sends and re-sends) when the target id is absent from the
\* active conversation, is the greeting at index 0, is a model message, or a
\* send is in flight.
C5_EditIgnored ==
  [][\A id \in ActiveMessageIds \cup {AbsentMessage} : \A text \in EditTexts :
       (/\ EditMessage(id, text)
        /\ \/ PositionsOf(id) = {}
           \/ 1 \in PositionsOf(id)
           \/ \E p \in PositionsOf(id) : ActiveMessages[p].role = MODEL
           \/ sends # {})
       => UNCHANGED <<conversations, activeConversationId, isLoading, error, sends,
                      timers, titleReqs, chatHistory>>]_vars

\* C6: sendMessage with an empty prompt and no images (undefined or an empty
\* list), from the chat input or from a deferred re-send, appends no message,
\* changes no title, does not set the in-flight flag and issues no remote call.
C6_EmptySendIgnored ==
  [][(\/ \E in \in SendInputs :
           /\ in[1] = ""
           /\ in[2] \in {None, Some(<<>>)}
           /\ SendMessage(in[1], in[2])
      \/ /\ timers # <<>>
         /\ Head(timers).text = ""
         /\ Head(timers).images \in {None, Some(<<>>)}
         /\ TimerFire)
     => UNCHANGED <<conversations, activeConversationId, isLoading, error, sends,
                    titleReqs, chatHistory, nextId>>]_vars

\* An empty send from the chat input was ignored while nothing else stood in
\* its way (no send in flight, an active conversation).
C6_Witness ==
  /\ last.op = "sendMessage"
  /\ last.outcome = "ignored"
  /\ last.via = "input"
  /\ ~isLoading
  /\ ActiveMessages # <<>>

\* C7: setFeedback(messageId, tag) on a message of the active conversation
\* sets its feedback to tag when the current feedback differs from tag and
\* clears it when it equals tag; the same tag applied twice in a row to a
\* message that did not carry it leaves the message with no feedback; the
\* feedback is never more than one tag, and no other message changes.
C7_FeedbackToggles ==
  [][\A id \in FeedbackIds : \A tag \in {"up", "down"} : \A p \in PositionsOf(id) :
       Feedback(id, tag) =>
         LET old == ActiveMessages
             new == (CHOOSE c \in {conversations'[i] : i \in 1..Len(conversations')} :
                       c.id = activeConversationId).messages
         IN  /\ Len(new) = Len(old)
             /\ old[p].feedback # tag => new[p].feedback = tag
             /\ old[p].feedback = tag => new[p].feedback = "null"
             /\ new[p].feedback \in {"null", "up", "down"}
             /\ (/\ last.op = "feedback" /\ last.index = p /\ last.id = id
                 /\ last.tag = tag /\ last.was # tag)
                => new[p].feedback = "null"
             /\ \A q \in 1..Len(old) : q # p => new[q] = old[q]
             /\ new[p] = [old[p] EXCEPT !.feedback = new[p].feedback]]_vars

\* The tag a reply already carried was applied again and cleared it.
C7_Witness ==
  /\ last.op = "feedback"
  /\ last.index >= 2
  /\ last.was = last.tag
  /\ ActiveMessages[last.index].id = last.id
  /\ ActiveMessages[last.index].feedback = "null"

\* The messages of every conversation, in list order
AllMessages == [i \in 1..Len(conversations) |-> conversations[i].messages]

\* The history a session bound to the messages holds: one entry for each
\* message after the greeting, in order, with the message's role and text.
IsHistoryOf(history, messages) ==
  /\ Len(history) = Len(messages) - 1
  /\ \A i \in 1..Len(history) :
       /\ history[i].role = messages[i + 1].role
       /\ messages[i + 1].text # ""
            => history[i].parts[Len(history[i].parts)] = [text |-> messages[i + 1].text]

\* C8: setMode from CHAT to MAPS on the active conversation with messages
\* after the greeting leaves every message of every conversation unchanged
\* and leaves no session bound; setMode back to CHAT binds a session whose
\* history is every message after the greeting, in order, those appended in
\* MAPS mode included.
C8_ModeSwitchRebinds ==
  [][/\ (/\ SetMode(MAPS)
         /\ ActiveMode(conversations, activeConversationId) = CHAT
         /\ Len(ActiveMessages) >= 2)
        => /\ AllMessages' = AllMessages
           /\ chatSession' = None
     /\ (/\ SetMode(CHAT)
         /\ ActiveMode(conversations, activeConversationId) = MAPS)
        => /\ AllMessages' = AllMessages
           /\ chatSession' # None
           /\ IsHistoryOf(chatSession'[1].history, ActiveMessages)]_vars

\* The mode went back to CHAT after a reply with sources was appended in MAPS
\* mode to a conversation that already had a CHAT exchange.
C8_Witness ==
  /\ last.op = "setMode"
  /\ last.mode = CHAT
  /\ last.from = MAPS
  /\ Len(ActiveMessages) = 5
  /\ ActiveMessages[3].sources = None
  /\ ActiveMessages[5].sources # None
  /\ chatSession # None
  /\ Len(chatSession[1].history) = 4

\* A send with this prompt and these images is not refused for being empty.
HasContent(prompt, images) == ~ (prompt = "" /\ images \in {None, Some(<<>>)})

\* The step appended to conversation conv exactly a user message with the
\* prompt and then a model message with the text, issued no remote call, set
\* the banner to the text and left the in-flight flag clear.
FailedAtDispatch(conv, prompt, text) ==
  /\ sends' = sends
  /\ error' = Some(text)
  /\ isLoading' = FALSE
  /\ Len(conversations') = Len(conversations)
  /\ \A i \in 1..Len(conversations) :
       LET old == conversations[i].messages
           new == conversations'[i].messages
       IN  IF conversations[i].id # conv THEN new = old
           ELSE /\ Len(new) = Len(old) + 2
                /\ SubSeq(new, 1, Len(old)) = old
                /\ new[Len(old) + 1].role = USER
                /\ new[Len(old) + 1].text = prompt
                /\ new[Len(old) + 2].role = MODEL
                /\ new[Len(old) + 2].text = text
                /\ new[Len(old) + 2].sources = None

\* C9: a sendMessage dispatched in MAPS mode while no location has been
\* acquired issues no remote call, sets the banner to the location error,
\* appends to the conversation exactly the user message and then one model
\* message with the error text, and leaves the in-flight flag clear.
C9_MapsWithoutLocationFails ==
  [][/\ \A in \in SendInputs :
          (/\ SendMessage(in[1], in[2])
           /\ HasContent(in[1], in[2])
           /\ ~isLoading
           /\ ActiveMode(conversations, activeConversationId) = MAPS
           /\ location = None)
          => FailedAtDispatch(activeConversationId, in[1],
                              "Error: Location not available. Please allow location access.")
     /\ (/\ timers # <<>>
         /\ TimerFire
         /\ HasContent(Head(timers).text, Head(timers).images)
         /\ Head(timers).closure.mode = MAPS
         /\ Head(timers).closure.location = None
         /\ location = None)
        => FailedAtDispatch(Head(timers).closure.id, Head(timers).text,
                            "Error: Location not available. Please allow location access.")]_vars

\* A send from the chat input in MAPS mode failed for want of a location.
C9_Witness ==
  /\ last.op = "sendMessage"
  /\ last.via = "input"
  /\ last.outcome = "failed"
  /\ last.mode = MAPS
  /\ ~last.located
  /\ ~isLoading
  /\ Len(ActiveMessages) = last.before + 2
  /\ ActiveMessages[last.before + 1].role = USER
  /\ ActiveMessages[last.before + 2].text = error[1]

\* The text a failure with this message is reported with
Reported(message) ==
  "Error: " \o (IF message = "" THEN "An unexpected error occurred." ELSE message)

\* The failure of the send whose user message is send is in the history of
\* conversation conv: its last message is a model message with the text, right
\* after the user message, and the list is persisted.
InHistory(convs, stored, conv, send, text) ==
  /\ \E i \in 1..Len(convs) :
       LET ms == convs[i].messages
           n == Len(ms)
       IN  /\ convs[i].id = conv
           /\ n >= 3
           /\ ms[n].role = MODEL
           /\ ms[n].text = text
           /\ ms[n - 1].role = USER
           /\ ms[n - 1].id = send
  /\ stored = Stored(Serialize(convs))

\* C10 as stated: whenever a dispatched sendMessage fails, the banner is set
\* to the formatted error and a model message with that text is appended
\* after the user message to the conversation captured at dispatch.
C10_FailureAlwaysInHistory ==
  [][/\ \A s \in sends : \A message \in RejectMessages :
          SendReject(s, message)
          => /\ error' = Some(Reported(message))
             /\ InHistory(conversations', chatHistory', s.conv, s.send, Reported(message))
     /\ (last'.op = "sendMessage" /\ last'.outcome = "failed")
        => /\ error' # None
           /\ InHistory(conversations', chatHistory', last'.conv, last'.send, error'[1])]_vars

\* Conversation conv, when it is in the list, has exactly added more messages
\* at its end, the last of them a model message with the text, and the list is
\* persisted; no other conversation's messages have changed.
AppendedAtEnd(conv, added, text) ==
  /\ Len(conversations') = Len(conversations)
  /\ \A i \in 1..Len(conversations) :
       LET old == conversations[i].messages
           new == conversations'[i].messages
       IN  IF conversations[i].id # conv THEN new = old
           ELSE /\ Len(new) = Len(old) + added
                /\ SubSeq(new, 1, Len(old)) = old
                /\ new[Len(new)].role = MODEL
                /\ new[Len(new)].text = text
  /\ FindIndex(conversations, conv) # 0 => chatHistory' = Stored(Serialize(conversations'))

\* C10 amended: whenever a dispatched sendMessage fails, the banner is set to
\* the formatted error; when the conversation captured at dispatch is still
\* in the list, a model message with that text is appended at its end and
\* persisted; when it is not, no message is appended to any conversation.
C10_FailureInHistoryIfPresent ==
  [][/\ \A s \in sends : \A message \in RejectMessages :
          SendReject(s, message)
          => /\ error' = Some(Reported(message))
             /\ AppendedAtEnd(s.conv, 1, Reported(message))
     /\ (last'.op = "sendMessage" /\ last'.outcome = "failed")
        => /\ error' \in {Some(Reported(LocationError)), Some(Reported(SessionError))}
           /\ AppendedAtEnd(last'.conv, 2, error'[1])]_vars

\* A remote call was rejected with no message while its conversation was
\* still in the list: the fallback text is on the banner and in the history.
C10_Witness ==
  /\ last.op = "sendReject"
  /\ error = Some("Error: An unexpected error occurred.")
  /\ InHistory(conversations, chatHistory, last.conv, last.send,
               "Error: An unexpected error occurred.")

\* C11: provided every pending remote call eventually resolves or rejects,
\* whenever the in-flight flag is set it is eventually cleared, and the step
\* in which a call resolves or rejects leaves the flag clear.
C11_FlagEventuallyCleared ==
  /\ isLoading ~> ~isLoading
  /\ [][(\E s \in sends :
           \/ \E text \in ResponseTexts : SendResolve(s, text)
           \/ \E message \in RejectMessages : SendReject(s, message))
        => ~isLoading']_vars

\* The only pending call was rejected and the flag is clear.
C11_Witness ==
  /\ last.op = "sendReject"
  /\ sends = {}
  /\ ~isLoading
  /\ Len(ActiveMessages) >= 3

\* C12: selecting another conversation or creating a new chat leaves a send
\* in flight pending; when it settles while another conversation is active,
\* its model message (response or error) is appended at the end of the
\* conversation captured at dispatch, the only one that can hold its user
\* message, and the messages of every other conversation, the active one
\* included, stay as they were.
C12_CompletionGoesToCapturedConversation ==
  [][/\ (NewChat \/ \E id \in ConversationIds : SelectConversation(id))
        => sends' = sends
     /\ \A s \in sends :
          (/\ \/ \E text \in ResponseTexts : SendResolve(s, text)
              \/ \E message \in RejectMessages : SendReject(s, message)
           /\ s.conv # activeConversationId)
          => /\ Len(conversations') = Len(conversations)
             /\ sends' = sends \ {s}
             /\ \A i \in 1..Len(conversations) :
                  LET old == conversations[i].messages
                      new == conversations'[i].messages
                  IN  IF conversations[i].id = s.conv
                      THEN /\ Len(new) = Len(old) + 1
                           /\ SubSeq(new, 1, Len(old)) = old
                           /\ new[Len(new)].id = s.send + 1
                           /\ new[Len(new)].role = MODEL
                      ELSE /\ new = old
                           /\ \A j \in 1..Len(old) : old[j].id # s.send]_vars

\* A send resolved while another conversation was active: its reply is the
\* last message of a conversation that is not the active one, right after its
\* user message, and the active conversation holds the greeting only.
C12_Witness ==
  /\ last.op = "sendResolve"
  /\ Len(ActiveMessages) = 1
  /\ \E i \in 1..Len(conversations) :
       LET ms == conversations[i].messages
       IN  /\ conversations[i].id # activeConversationId
           /\ Len(ms) >= 3
           /\ ms[Len(ms)].id = last.send + 1
           /\ ms[Len(ms) - 1].id = last.send

\* Everything but the active pointer and what the effects derive from it
StoreCells ==
  <<conversations, chatHistory, isLoading, error, location, sends, timers, titleReqs,
    playbacks, nextId, nextConvId>>

\* C13: selectConversation(id) makes id the active pointer when a conversation
\* with that id is in the list, and changes nothing (pointer, list, session,
\* context) when there is none.
C13_SelectSetsPointerOrNothing ==
  [][\A id \in ConversationIds \cup {AbsentConversation} :
       SelectConversation(id)
       => IF id \in ConversationIds
          THEN activeConversationId' = id /\ UNCHANGED StoreCells
          ELSE UNCHANGED <<activeConversationId, chatSession, context, StoreCells>>]_vars

\* seq without its element at position p
Without(seq, p) == [i \in 1..(Len(seq) - 1) |-> IF i < p THEN seq[i] ELSE seq[i + 1]]

\* The positions of the conversations with the id
ConversationPositions(id) == {i \in 1..Len(conversations) : conversations[i].id = id}

C15_ActivePointerValid ==
  Cardinality(ConversationPositions(activeConversationId)) = 1

\* C19: newChat puts one new conversation at the head of the list (an id no
\* conversation had, the greeting only, mode CHAT, empty context), makes it
\* active and leaves the conversations that were there unchanged, in their
\* order; the list is ordered from the newest conversation to the oldest.
C19_NewChatPrepends ==
  /\ [][NewChat
        => /\ Len(conversations') = Len(conversations) + 1
           /\ conversations'[1].id \notin ConversationIds
           /\ conversations'[1].title = "New Chat"
           /\ Len(conversations'[1].messages) = 1
           /\ conversations'[1].messages[1].role = MODEL
           /\ conversations'[1].messages[1].text = GreetingText
           /\ conversations'[1].mode = CHAT
           /\ conversations'[1].context = ""
           /\ activeConversationId' = conversations'[1].id
           /\ \A i \in 1..Len(conversations) : conversations'[i + 1] = conversations[i]]_vars
  /\ [](\A i, j \in 1..Len(conversations) :
          i < j => conversations[i].id > conversations[j].id)

\* newChat made a third conversation; an older one holds an exchange.
C19_Witness ==
  /\ last.op = "newChat"
  /\ Len(conversations) = 3
  /\ Len(conversations[1].messages) = 1
  /\ activeConversationId = conversations[1].id
  /\ \E i \in 2..3 : Len(conversations[i].messages) = 3

\* The text t occurs in the text s.
Contains(s, t) ==
  \E i \in 1..(Len(s) - Len(t) + 1) : SubSeq(s, i, i + Len(t) - 1) = t

\* The message is the fixed greeting.
IsGreeting(m) == m.role = MODEL /\ m.text = GreetingText

\* C16: every conversation has at least one message and its first message is
\* the greeting, with role model; a conversation that a step keeps in the list
\* keeps the identity, role and text of its first message; the history of the
\* bound session has one entry for each message after the first and the
\* greeting's text in none of them; the content of an export does not hold
\* the greeting's text.
C16_GreetingFirstAndExcluded ==
  /\ [](\A i \in 1..Len(conversations) :
          /\ Len(conversations[i].messages) >= 1
          /\ IsGreeting(conversations[i].messages[1]))
  /\ [][\A i \in 1..Len(conversations) : \A j \in 1..Len(conversations') :
          conversations[i].id = conversations'[j].id
            => /\ conversations'[j].messages[1].id = conversations[i].messages[1].id
               /\ conversations'[j].messages[1].role = conversations[i].messages[1].role
               /\ conversations'[j].messages[1].text = conversations[i].messages[1].text]_vars
  /\ [](chatSession # None =>
          /\ ActiveMessages # <<>> => Len(chatSession[1].history) = Len(ActiveMessages) - 1
          /\ \A k \in 1..Len(chatSession[1].history) :
               \A q \in 1..Len(chatSession[1].history[k].parts) :
                 "text" \in DOMAIN chatSession[1].history[k].parts[q]
                   => chatSession[1].history[k].parts[q].text # GreetingText)
  /\ []((last.op = "export" /\ last.content # None)
          => ~ Contains(last.content[1], GreetingText))

\* The active conversation, after an edit truncated it and a re-send and its
\* reply refilled it, with feedback on its greeting, is exported.
C16_Witness ==
  /\ last.op = "export"
  /\ last.content # None
  /\ Len(ActiveMessages) >= 3
  /\ ActiveMessages[1].feedback = "up"
  /\ ActiveMessages[2].text = "yo"
  /\ chatSession # None
  /\ Len(chatSession[1].history) >= 2
  /\ Len(conversations) >= 2

\* C17: after every step that changes the conversation list, and so in every
\* state, the 'chatHistory' entry holds the serialization of the list when the
\* list is not empty, and the entry is absent exactly when the list is empty.
C17_StoreFollowsList ==
  /\ [][conversations' # conversations =>
          /\ conversations' # <<>> => chatHistory' = Stored(Serialize(conversations'))
          /\ conversations' = <<>> => chatHistory' = Absent]_vars
  /\ [](/\ conversations # <<>> => chatHistory = Stored(Serialize(conversations))
        /\ chatHistory = Absent <=> conversations = <<>>)

\* A playback ended in a conversation whose title a failed title request set:
\* the entry holds the cleared flag and the title.
C17_Witness ==
  /\ last.op = "playEnd"
  /\ chatHistory.kind = "array"
  /\ \E i \in 1..Len(conversations) :
       /\ conversations[i].title = FallbackTitle
       /\ chatHistory.items[i].title = FallbackTitle
       /\ \E k \in 1..Len(conversations[i].messages) :
            /\ conversations[i].messages[k].isPlaying = "false"
            /\ chatHistory.items[i].messages[k].isPlaying = "false"

\* The last conversation was deleted while the pointer named none: the list
\* is empty and the entry is removed.
C17_WitnessEmpty ==
  /\ last.op = "deleteConversation"
  /\ conversations = <<>>
  /\ chatHistory = Absent

C18_WitnessLoaded ==
  /\ last.op = "reload"
  /\ last.stored = "array"
  /\ Len(conversations) = 2
  /\ Len(conversations[2].messages) = 3
  /\ last.active = conversations[2].id
  /\ activeConversationId = conversations[1].id

\* The conversation with the id in the list
ConversationOf(convs, id) == FindConversation(convs, id)[1]

\* The title a first send gives: the first 40 characters of the user
\* message's text, or of the placeholder when it has none, then the ellipsis.
TitleFor(text) ==
  LET t == IF text = "" THEN "Image Upload" ELSE text
  IN  SubSeq(t, 1, Min(40, Len(t))) \o "..."

\* C20: a send that appends its user message to a conversation that had one
\* message, whether issued from the input or as the re-send of an edit, sets
\* the title to the truncated prompt with the ellipsis and issues a title
\* request for that conversation; a send that appends to a conversation with
\* more messages leaves the title and the title requests as they were.
C20_FirstSendTitlesAndRequests ==
  [][(last'.op = "sendMessage" /\ last'.outcome # "ignored" /\ last'.before >= 1) =>
       LET old == ConversationOf(conversations, last'.conv)
           new == ConversationOf(conversations', last'.conv)
       IN  /\ new.messages[last'.before + 1].id = last'.send
           /\ IF last'.before = 1
              THEN /\ new.title = TitleFor(new.messages[2].text)
                   /\ \E r \in titleReqs' \ titleReqs : r.conv = last'.conv
              ELSE /\ new.title = old.title
                   /\ titleReqs' = titleReqs]_vars

\* The lists differ at most in the title of the conversations with the id.
SameButTitleOf(old, new, id) ==
  /\ Len(new) = Len(old)
  /\ \A i \in 1..Len(old) :
       IF old[i].id = id
       THEN new[i] = [old[i] EXCEPT !.title = new[i].title]
       ELSE new[i] = old[i]

\* C21: the result of a title request sets the title of the conversation
\* whose id the send captured, whatever its title is by then (a title the
\* user set meanwhile is overwritten), changes no other conversation, and
\* changes nothing when no conversation has that id any more.
C21_LateTitleOverwrites ==
  [][\A r \in titleReqs : \A response \in TitleResponses :
       TitleResolve(r, response) =>
         /\ SameButTitleOf(conversations, conversations', r.conv)
         /\ \A i \in 1..Len(conversations') :
              conversations'[i].id = r.conv
                => conversations'[i].title = GeneratedTitle(response)
         /\ ConversationPositions(r.conv) = {} => conversations' = conversations]_vars

\* A generated title has just replaced the title the user gave the
\* conversation after its first send was dispatched.
C21_Witness ==
  /\ last.op = "titleResolve"
  /\ ~ last.failed
  /\ last.was = Some("Mine")
  /\ \E i \in 1..Len(conversations) :
       /\ conversations[i].id = last.conv
       /\ conversations[i].title = "Trip"
       /\ Len(conversations[i].messages) >= 2
  /\ Len(conversations) >= 2

\* A title result arrived for a conversation that is no longer in the list.
C21_WitnessGone ==
  /\ last.op = "titleResolve"
  /\ last.was = None
  /\ ConversationPositions(last.conv) = {}

\* C22: a title request that fails leaves the error banner, the in-flight
\* flag, the pending sends and the messages of every conversation as they
\* were; it sets the title of the conversation the send captured to the
\* fallback title and changes nothing else in the list.
C22_TitleFailureOnlyRetitles ==
  [][\A r \in titleReqs :
       TitleResolve(r, None) =>
         /\ error' = error
         /\ isLoading' = isLoading
         /\ sends' = sends
         /\ AllMessages' = AllMessages
         /\ SameButTitleOf(conversations, conversations', r.conv)
         /\ \A i \in 1..Len(conversations') :
              conversations'[i].id = r.conv => conversations'[i].title = "Untitled Chat"]_vars

\* A title request failed while the banner showed the failure of the send
\* that issued it and a later send was not in flight: the conversation got
\* the fallback title and the banner stayed.
C22_Witness ==
  /\ last.op = "titleResolve"
  /\ last.failed
  /\ last.was # None
  /\ \E i \in 1..Len(conversations) :
       /\ conversations[i].id = last.conv
       /\ conversations[i].title = "Untitled Chat"
       /\ Len(conversations[i].messages) = 3
  /\ ~ isLoading
  /\ error = Some(FormatError("Service unavailable"))

\* The places of the store that hold a message: conversation position and
\* message position.
MessagePlaces ==
  {pl \in (1..Len(conversations)) \X (1..MaxId) :
     pl[2] <= Len(conversations[pl[1]].messages)}

\* C23: no two messages of the store, in the same conversation or in two
\* conversations, greetings included, have the same identifier.
C23_MessageIdsUnique ==
  \A p \in MessagePlaces : \A q \in MessagePlaces :
    p # q => conversations[p[1]].messages[p[2]].id # conversations[q[1]].messages[q[2]].id

\* The text of the failure of a plain send that finds no session
SessionFailureText == "Error: Chat session not initialized."

\* C24: whenever there is an active conversation, a session is bound exactly
\* when its mode is CHAT, and the history of that session is the
\* conversation's messages after the greeting, in order, with their roles;
\* every send that runs the CHAT branch is dispatched with a session, and no
\* banner and no message ever holds the failure of a missing session.
C24_SessionBoundIffPlain ==
  /\ [](ActiveMessages # <<>> =>
          /\ chatSession # None <=> ActiveMode(conversations, activeConversationId) = CHAT
          /\ chatSession # None => IsHistoryOf(chatSession[1].history, ActiveMessages))
  /\ [][(last'.op = "sendMessage" /\ last'.outcome # "ignored" /\ last'.mode = CHAT) =>
          /\ last'.outcome = "dispatched"
          /\ \E s \in sends' \ sends : s.send = last'.send /\ s.history # None]_vars
  /\ [](/\ error # Some(SessionFailureText)
        /\ \A p \in MessagePlaces :
             conversations[p[1]].messages[p[2]].text # SessionFailureText)

\* In a list with a conversation in another mode, a send in CHAT mode was
\* dispatched in a conversation that already had a reply: the session bound
\* afterwards holds the three messages after the greeting.
C24_Witness ==
  /\ last.op = "sendMessage"
  /\ last.outcome = "dispatched"
  /\ last.mode = CHAT
  /\ Len(ActiveMessages) = 4
  /\ chatSession # None
  /\ Len(chatSession[1].history) = 3
  /\ \E i \in 1..Len(conversations) : conversations[i].mode = THINKING

\* The send dispatched by the step, in CHAT mode, went through a session
\* whose history is the messages the conversation had right before the
\* send's own user message was appended, without the greeting.
DispatchedOnCurrentHistory ==
  LET old == ConversationOf(conversations, last'.conv)
  IN  \E s \in sends' \ sends :
        /\ s.send = last'.send
        /\ s.history # None
        /\ IsHistoryOf(s.history[1].history, old.messages)

\* C25: the re-send of an edit, dispatched in CHAT mode, goes through a
\* session whose history is the truncated messages without the greeting: it
\* holds neither the edited message nor the messages discarded after it.
C25_ResendUsesTruncatedHistory ==
  [][(/\ last'.op = "sendMessage"
      /\ last'.outcome = "dispatched"
      /\ last'.via = "timer"
      /\ last'.mode = CHAT
      /\ last'.before >= 1) => DispatchedOnCurrentHistory]_vars

\* The picked files hold one that is refused by its type or its size.
HasRefusedFile(files) ==
  \E k \in 1..Len(files) :
    files[k].type \notin allowedTypes \/ files[k].size > 5 * 1024 * 1024

\* C26: the pending prompt never has more than 5 previews, however the reads
\* of several selections interleave; and a selection that holds a file of a
\* type that is not allowed or of more than 5MB adds no preview, starts no
\* read and sets the inline error.
C26_AtMostFivePreviews ==
  /\ [](Len(imagePreviews) <= 5)
  /\ [][\A files \in Selections :
          (HandleImageChange(files) /\ HasRefusedFile(files)) =>
            /\ imagePreviews' = imagePreviews
            /\ filePromises' = filePromises
            /\ imageError' # None]_vars

\* C27: the deferred re-send of a truncating edit is accepted and puts, at
\* the position the edited message had, a user message with the new text and
\* the images of the edited message, also when the new text is empty and the
\* edited message had no images.
C27_EditAlwaysResends ==
  [][TimerFire =>
       LET t == Head(timers)
           c == FindConversation(conversations', t.closure.id)
       IN  /\ last'.outcome # "ignored"
           /\ c # None
           /\ Len(c[1].messages) >= t.index
           /\ c[1].messages[t.index].role = USER
           /\ c[1].messages[t.index].text = t.text
           /\ c[1].messages[t.index].images = t.images
           /\ c[1].messages[t.index].id = last'.send]_vars

\* C28: when a send resolves or rejects and no conversation has the id the
\* send captured any more, the list stays exactly as it is (nothing is
\* appended to another conversation, the removed one does not come back),
\* the send is no longer pending and the in-flight flag is clear.
C28_CompletionAfterRemoval ==
  [][\A s \in sends :
       ((\/ \E text \in ResponseTexts : SendResolve(s, text)
         \/ \E message \in RejectMessages : SendReject(s, message))
        /\ ConversationPositions(s.conv) = {}) =>
          /\ conversations' = conversations
          /\ activeConversationId' = activeConversationId
          /\ s \notin sends'
          /\ isLoading' = FALSE]_vars

\* A send resolved after its conversation was removed: no conversation of
\* the list holds the send's user message, and the flag is clear.
C28_Witness ==
  /\ last.op = "sendResolve"
  /\ \A p \in MessagePlaces : conversations[p[1]].messages[p[2]].id # last.send
  /\ Len(conversations) >= 1
  /\ ~ isLoading

\* C29: a page load over an entry that holds a non-empty list leaves the
\* entry as it is at each of its steps: the entry is neither removed nor
\* written with another content before the loaded list is persisted, and
\* that first write puts the same list back.
C29_StartupKeepsEntry ==
  /\ [][(last'.op = "mount" /\ chatHistory.kind = "array" /\ Len(chatHistory.items) > 0)
          => chatHistory' = chatHistory]_vars
  /\ []((mountUpdate # None /\ mountUpdate[1].loaded)
          => chatHistory = Stored(Serialize(mountUpdate[1].conversations)))
  /\ [][(last'.op = "mountRender" /\ last'.loaded)
          => chatHistory' = Stored(Serialize(mountUpdate[1].conversations))]_vars

\* The message at the place has its playback flag set.
Playing(p) == conversations[p[1]].messages[p[2]].isPlaying = "true"

\* C30: a message has its playback flag set only while a playback of it is
\* outstanding, whichever conversation is active; a flag that is set is
\* cleared later; and right after a page load no message has its flag set.
C30_PlayingOnlyWhileOutstanding ==
  /\ [](\A p \in MessagePlaces :
          Playing(p) => \E b \in playbacks :
                          /\ b.conv = conversations[p[1]].id
                          /\ b.id = conversations[p[1]].messages[p[2]].id)
  /\ \A c \in 1..MaxConvId : \A id \in 1..MaxId :
       ((\E p \in MessagePlaces :
           /\ conversations[p[1]].id = c
           /\ conversations[p[1]].messages[p[2]].id = id
           /\ Playing(p))
        ~> (~ \E p \in MessagePlaces :
              /\ conversations[p[1]].id = c
              /\ conversations[p[1]].messages[p[2]].id = id
              /\ Playing(p)))
  /\ [](last.op = "reload" => \A p \in MessagePlaces : ~ Playing(p))

====
